---- MODULE Spec2Model ----
(***************************************************************************)
(* A model of the household task bot: the task store (SQLite table tasks), *)
(* the handlers that create, list, edit, complete, delete and clear tasks, *)
(* the maintenance sweep (monthlyCleanup), and the handler of a chat        *)
(* message that asks the language model what to call.                      *)
(*                                                                         *)
(* The repository holds several variants of the bot.  Three are modelled,  *)
(* told apart by the variable deployment:                                  *)
(*   "handlers"    src/unnamed/part_005 (handlers.js with normalizeTask)   *)
(*                 on the schema of src/unnamed/part_003 (db.js, UNIQUE)   *)
(*   "handlers_v1" src/handlers.js on the same schema                      *)
(*   "index"       src/unnamed/part_001, the single-file bot (own schema,  *)
(*                 no UNIQUE); processTasks and monthlyCleanup are also    *)
(*                 those of the second program of src/index.js             *)
(*                                                                         *)
(* Text is a sequence of one-character strings.  Time is counted in days.  *)
(* The column createdAt is written once and read by no statement of the    *)
(* repository; it is the one column the rows of the model do not carry.    *)
(***************************************************************************)
EXTENDS Integers, Sequences, FiniteSets, TLC

VARIABLES
    deployment,   \* which variant of the bot runs on the store
    tasks,        \* table tasks: a set of rows
    nextId,       \* sqlite_sequence of tasks: the id the next INSERT gets
    now,          \* the clock (new Date()), in days since the first start
    lastCleanup,  \* table knowledge, key 'lastCleanup'
    archive,      \* the archive files: a function file name (a day) -> rows
    sweeps,       \* the monthlyCleanup calls suspended at await fs.writeFile
    reply,        \* the last message handed to bot.sendMessage
    request,      \* the call of a handler that was made last
    received,     \* the number of chat messages received
    awaiting,     \* the message handlers suspended at the await of the language model
    ended,        \* the message handler that ended last, and how it ended
    conversations,        \* the Map of grandma-bot.js: userId -> the turns remembered
    shortTermMemory,      \* the array of GrandmaMemory in the single-file bot
    conversation_history  \* table conversation_history of the single-file bot, oldest row first

vars == <<deployment, tasks, nextId, now, lastCleanup, archive, sweeps, reply, request,
          received, awaiting, ended,
               conversations, shortTermMemory, conversation_history>>

---------------------------------------------------------------------------
(* Bounds of the model *)

MaxRows == 2       \* rows ever inserted (ids 1..MaxRows)
MaxBatch == 2      \* descriptors in one createTasks / processTasks call
MaxIdents == 1     \* identifiers in one completeTasks / deleteTasks call

---------------------------------------------------------------------------
(* Text *)

NULL == <<"null">>          \* SQL NULL, JS null / undefined, for text columns
NoTime == <<>>              \* SQL NULL in completedAt; a set time t is <<t>>
Nobody == "null"            \* SQL NULL in completedBy

AsciiUpper == <<"A","B","C","D","E","F","G","H","I","J","K","L","M",
                "N","O","P","Q","R","S","T","U","V","W","X","Y","Z">>
AsciiLower == <<"a","b","c","d","e","f","g","h","i","j","k","l","m",
                "n","o","p","q","r","s","t","u","v","w","x","y","z">>
UmlautUpper == <<"Ä","Ö","Ü">>
UmlautLower == <<"ä","ö","ü">>

\* the characters of the texts of the model
Chars ==
    {AsciiUpper[i] : i \in 1..Len(AsciiUpper)} \cup {AsciiLower[i] : i \in 1..Len(AsciiLower)}
    \cup {UmlautUpper[i] : i \in 1..Len(UmlautUpper)}
    \cup {UmlautLower[i] : i \in 1..Len(UmlautLower)} \cup {"ß", " ", "\t", "\n"}

MapChar(c, from, to) ==
    IF \E i \in 1..Len(from) : from[i] = c
    THEN to[CHOOSE i \in 1..Len(from) : from[i] = c]
    ELSE c

\* String.prototype.toLowerCase, character by character: every cased letter
JsLowerChar ==
    [c \in Chars |-> MapChar(MapChar(c, AsciiUpper, AsciiLower), UmlautUpper, UmlautLower)]

toLowerCase(s) == [i \in 1..Len(s) |-> JsLowerChar[s[i]]]

\* SQLite lower() and the case folding of LIKE: ASCII letters only
SqlLowerChar == [c \in Chars |-> MapChar(c, AsciiUpper, AsciiLower)]

lower(s) == [i \in 1..Len(s) |-> SqlLowerChar[s[i]]]

IsSpace(c) == c \in {" ", "\t", "\n"}

\* With(v, LAMBDA x : e) is e with x standing for the value v
With(v, F(_)) == F(v)

Min(S) == CHOOSE i \in S : \A j \in S : i <= j
Max(S) == CHOOSE i \in S : \A j \in S : i >= j
MinOr0(S) == IF S = {} THEN 0 ELSE Min(S)

\* the positions at which pat occurs in s
Occ(s, pat) == {i \in 1..(Len(s) - Len(pat) + 1) : SubSeq(s, i, i + Len(pat) - 1) = pat}

\* String.prototype.indexOf, counted from 1: 0 when pat does not occur
IndexOf(s, pat) == MinOr0(Occ(s, pat))

\* String.prototype.includes
includes(s, pat) ==
    \E i \in 1..(Len(s) - Len(pat) + 1) : SubSeq(s, i, i + Len(pat) - 1) = pat

\* s with the n characters from position i on replaced by with; s when i = 0
replaceAt(s, i, n, with) ==
    IF i = 0 THEN s ELSE SubSeq(s, 1, i - 1) \o with \o SubSeq(s, i + n, Len(s))

\* String.prototype.replace(pat, with) with a string pattern: the first occurrence
replace(s, pat, with) == replaceAt(s, IndexOf(s, pat), Len(pat), with)

\* String.prototype.trim
trim(s) ==
    With({i \in 1..Len(s) : ~IsSpace(s[i])},
         LAMBDA keep : IF keep = {} THEN <<>> ELSE SubSeq(s, Min(keep), Max(keep)))

\* String.prototype.substring(0, n)
substring(s, n) == SubSeq(s, 1, IF Len(s) < n THEN Len(s) ELSE n)

\* .replace(/\s+/g, ' '): every run of white space becomes one blank
RECURSIVE collapseSpaces(_)
collapseSpaces(s) ==
    IF s = <<>> THEN <<>>
    ELSE IF IsSpace(Head(s))
         THEN IF Len(s) > 1 /\ IsSpace(s[2])
              THEN collapseSpaces(Tail(s))
              ELSE <<" ">> \o collapseSpaces(Tail(s))
         ELSE <<Head(s)>> \o collapseSpaces(Tail(s))

\* column LIKE '%' || x || '%', for an x without the wild cards % and _ :
\* x occurs in the column, ASCII letters compared without case; NULL LIKE ... is
\* not true
Like(column, x) == column # NULL /\ includes(lower(column), lower(x))

\* the last position of a greedy match of  a.*b.*c  that starts at i in low,
\* 0 when there is none: c ends the match at its last occurrence that leaves
\* room for a b after the a
MatchEnd(low, i, a, b, c) ==
    IF SubSeq(low, i, i + Len(a) - 1) # a THEN 0
    ELSE With({k \in Occ(low, c) :
                  \E j \in Occ(low, b) : i + Len(a) <= j /\ j + Len(b) <= k},
              LAMBDA ends : IF ends = {} THEN 0 ELSE Max(ends) + Len(c) - 1)

\* the end of the match of  a.*b.*c|a.*c.*b  at i: the first alternative
\* before the second
MatchEndEither(low, i, a, b, c) ==
    With(MatchEnd(low, i, a, b, c),
         LAMBDA end : IF end > 0 THEN end ELSE MatchEnd(low, i, a, c, b))

\* .replace(/a.*b.*c|a.*c.*b/gi, with): the leftmost match, then on with the
\* rest of the string; the flag i compares letters without case
RECURSIVE replaceRobot(_, _, _, _, _)
replaceRobot(s, a, b, c, with) ==
    With(toLowerCase(s), LAMBDA low :
    With(MinOr0({i \in Occ(low, a) : MatchEndEither(low, i, a, b, c) > 0}), LAMBDA start :
        IF start = 0 THEN s
        ELSE SubSeq(s, 1, start - 1) \o with
             \o replaceRobot(SubSeq(s, MatchEndEither(low, start, a, b, c) + 1, Len(s)),
                             a, b, c, with)))

saugroboter == <<"s","a","u","g","r","o","b","o","t","e","r">>
aktivieren == <<"a","k","t","i","v","i","e","r","e","n">>
kueche == <<"k","ü","c","h","e">>
wohnzimmer == <<"w","o","h","n","z","i","m","m","e","r">>
SaugroboterAktivieren ==
    <<"S","a","u","g","r","o","b","o","t","e","r"," ">> \o aktivieren
SaugroboterKuecheAktivieren ==
    <<"S","a","u","g","r","o","b","o","t","e","r"," ","K","ü","c","h","e"," ">>
    \o aktivieren
SaugroboterWohnzimmerAktivieren ==
    <<"S","a","u","g","r","o","b","o","t","e","r"," ",
      "W","o","h","n","z","i","m","m","e","r"," ">> \o aktivieren

\* .replace(/saugroboter\s+aktivieren$/gi, with): the match ends the string
replaceRobotAtEnd(s, with) ==
    With(toLowerCase(s), LAMBDA low :
    With(MinOr0({i \in Occ(low, saugroboter) :
                    \E k \in Occ(low, aktivieren) :
                        /\ k + Len(aktivieren) - 1 = Len(s)
                        /\ i + Len(saugroboter) < k
                        /\ \A m \in (i + Len(saugroboter))..(k - 1) : IsSpace(s[m])}),
         LAMBDA start : IF start = 0 THEN s ELSE SubSeq(s, 1, start - 1) \o with))

normalizeTask(title) ==
    replaceRobotAtEnd(
        replaceRobot(
            replaceRobot(collapseSpaces(trim(title)),
                         saugroboter, kueche, aktivieren, SaugroboterKuecheAktivieren),
            saugroboter, wohnzimmer, aktivieren, SaugroboterWohnzimmerAktivieren),
        SaugroboterAktivieren)

---------------------------------------------------------------------------
(* The inputs: who writes, and what the language model hands to a handler *)

Persons == {"Anna", "Ben"}

Milch == <<"M","i","l","c","h">>
EdekaMilch == <<"E","d","e","k","a"," ","M","i","l","c","h">>
PaddedMilch == <<" ","M","i","l","c","h">>
Edeka == <<"E","d","e","k","a">>

\* a task descriptor; a text field that is missing is NULL, a missing
\* importance, category or who is the empty string (all of them falsy)
Descriptor(title, where_text, category) ==
    [title |-> title, who |-> "", when_text |-> NULL, where_text |-> where_text,
     importance |-> "", category |-> category]

Descriptors ==
    { Descriptor(Milch, Edeka, ""),
      Descriptor(EdekaMilch, NULL, ""),
      Descriptor(PaddedMilch, NULL, "") }

Batches == UNION {[1..n -> Descriptors] : n \in 1..MaxBatch}

---------------------------------------------------------------------------
(* The store *)

\* a text field stored as it is given, the empty string too
AsGiven(x) == x

\* x || null  for a text field
OrNull(x) == IF x = NULL \/ x = <<>> THEN NULL ELSE x

\* x || fallback  for a string
OrElse(x, fallback) == IF x = "" THEN fallback ELSE x

\* the row an INSERT of the handlers writes: the columns it names, and the
\* defaults of the schema for completed, completedAt, completedBy
NewRow(id, task, who, person) ==
    [id |-> id, title |-> task.title, who |-> who,
     when_text |-> OrNull(task.when_text), where_text |-> OrNull(task.where_text),
     importance |-> OrElse(task.importance, "normal"),
     category |-> OrElse(task.category, "general"),
     createdBy |-> person,
     completed |-> 0, completedAt |-> NoTime, completedBy |-> Nobody]

\* UNIQUE(title, who, completed) of db.js: row r cannot stand beside rows.
\* The schema of the single-file bot has no such constraint.
Conflicts(rows, r) ==
    /\ deployment \in {"handlers", "handlers_v1"}
    /\ \E q \in rows : /\ q.id # r.id
                       /\ q.title = r.title
                       /\ q.who = r.who
                       /\ q.completed = r.completed

\* the message of a handler: the handler, the template (kind), the number and
\* the text put into it, and the lines it is joined from.  Every message goes
\* to the chat the request came from.
Msg(op, kind, n, text, lines) ==
    [op |-> op, kind |-> kind, n |-> n, text |-> text, lines |-> lines]

\* one line of a message that is put together from parts
Line(kind, n, text) == [kind |-> kind, n |-> n, text |-> text]

NoMsg == Msg("", "", 0, <<>>, <<>>)

\* the operation the bot is handling or handled last: the handler called, the
\* person the message came from and the arguments of the call
Request(op, person, args) == [op |-> op, person |-> person, args |-> args]

\* a message handler that ended: the number of the message, the person it
\* came from, its text, what the language model returned for it, the number of
\* messages the handler sent and of handlers it called, the kind of error it
\* met and whether the error left the handler uncaught
Ended(id, user, text, result, sent, called, error, escaped) ==
    [id |-> id, user |-> user, text |-> text, result |-> result, sent |-> sent,
     called |-> called, error |-> error, escaped |-> escaped]

\* a handler is called from outside a message handler
Handling(op, person, args) ==
    /\ request' = Request(op, person, args)
    /\ UNCHANGED <<received, awaiting, ended,
               conversations, shortTermMemory, conversation_history>>

Init ==
    /\ deployment \in {"handlers", "handlers_v1", "index"}
    /\ tasks = {}
    /\ nextId = 1
    /\ now = 0
    /\ lastCleanup = 0     \* the sweep of the startup sequence has run
    /\ archive = <<>>
    /\ sweeps = {}
    /\ reply = NoMsg
    /\ request = Request("", Nobody, <<>>)
    /\ received = 0
    /\ awaiting = {}
    /\ conversations = [userId \in Persons |-> <<>>]
    /\ shortTermMemory = <<>>
    /\ conversation_history = <<>>
    /\ ended = Ended(0, Nobody, <<>>, "", 0, 0, "", FALSE)

---------------------------------------------------------------------------
(* createTasks, src/unnamed/part_005 *)

RECURSIVE uniqueTasksOf(_, _, _)
uniqueTasksOf(batch, seen, existingTitles) ==
    IF batch = <<>> THEN <<>>
    ELSE With(normalizeTask(Head(batch).title), LAMBDA normalizedTitle :
         With(toLowerCase(normalizedTitle), LAMBDA key :
             IF key \notin seen /\ key \notin existingTitles
             THEN <<[Head(batch) EXCEPT !.title = normalizedTitle]>>
                  \o uniqueTasksOf(Tail(batch), seen \cup {key}, existingTitles)
             ELSE uniqueTasksOf(Tail(batch), seen, existingTitles)))

\* INSERT OR IGNORE, one statement for each task: a row that conflicts is
\* left out and takes no id
RECURSIVE insertOrIgnore(_, _, _, _)
insertOrIgnore(rows, id, batch, person) ==
    IF batch = <<>> THEN [rows |-> rows, nextId |-> id, added |-> 0]
    ELSE With(NewRow(id, Head(batch), person, person), LAMBDA r :
             IF Conflicts(rows, r)
             THEN insertOrIgnore(rows, id, Tail(batch), person)
             ELSE [insertOrIgnore(rows \cup {r}, id + 1, Tail(batch), person)
                      EXCEPT !.added = @ + 1])

\* the message after uniqueTasks were kept and done.added rows were written
createReply(uniqueTasks, done) ==
    IF uniqueTasks = <<>> \/ done.added = 0
    THEN Msg("createTasks", "Hab ich schon.", 0, <<>>, <<>>)
    ELSE IF done.added = 1
    THEN Msg("createTasks", "Gemerkt: ", 1, uniqueTasks[1].title, <<>>)
    ELSE IF done.added <= 5
    THEN Msg("createTasks", " neue dabei", done.added, <<>>, <<>>)
    ELSE Msg("createTasks", " Aufgaben gespeichert", done.added, <<>>, <<>>)

createTasks(batch, person) ==
    /\ deployment = "handlers"
    /\ \E uniqueTasks \in
            {uniqueTasksOf(batch, {},
                           {toLowerCase(t.title) :
                               t \in {q \in tasks : q.who = person /\ q.completed = 0}})} :
       \E done \in {insertOrIgnore(tasks, nextId, uniqueTasks, person)} :
          /\ done.nextId - 1 <= MaxRows
          /\ tasks' = done.rows
          /\ nextId' = done.nextId
          /\ reply' = createReply(uniqueTasks, done)
    /\ UNCHANGED <<deployment, now, lastCleanup, archive, sweeps>>

(* createTasks, src/handlers.js *)

\* INSERT, one statement for each task inside its own try: a row that
\* conflicts throws, is logged and skipped
RECURSIVE insertOrSkip(_, _, _, _)
insertOrSkip(rows, id, batch, person) ==
    IF batch = <<>> THEN [rows |-> rows, nextId |-> id, added |-> 0]
    ELSE With(NewRow(id, Head(batch), person, person), LAMBDA r :
             IF Conflicts(rows, r)
             THEN insertOrSkip(rows, id, Tail(batch), person)
             ELSE [insertOrSkip(rows \cup {r}, id + 1, Tail(batch), person)
                      EXCEPT !.added = @ + 1])

createReplyV1(batch, done) ==
    IF done.added = 1
    THEN Msg("createTasks", "Gemerkt: ", 1, batch[1].title, <<>>)
    ELSE IF done.added > 1 /\ done.added <= 5
    THEN Msg("createTasks", " neue dabei", done.added, <<>>, <<>>)
    ELSE IF done.added > 5
    THEN Msg("createTasks", "Uff, ", done.added, <<>>, <<>>)
    ELSE Msg("createTasks", "Hab ich schon.", 0, <<>>, <<>>)

createTasksV1(batch, person) ==
    /\ deployment = "handlers_v1"
    /\ \E done \in {insertOrSkip(tasks, nextId, batch, person)} :
          /\ done.nextId - 1 <= MaxRows
          /\ tasks' = done.rows
          /\ nextId' = done.nextId
          /\ reply' = createReplyV1(batch, done)
    /\ UNCHANGED <<deployment, now, lastCleanup, archive, sweeps>>

(* processTasks, src/unnamed/part_001 and src/index.js *)

\* the task descriptors the single-file bot is given
NewTasks ==
    UNION {[1..n -> {Descriptor(Milch, Edeka, ""), Descriptor(EdekaMilch, NULL, "")}] :
              n \in 1..MaxBatch}

\* insertMany on a table whose id is INTEGER PRIMARY KEY without
\* AUTOINCREMENT: the id is one more than the largest id in the table
RECURSIVE insertManyByRowid(_, _, _, _)
insertManyByRowid(rows, id, batch, person) ==
    IF batch = <<>> THEN [rows |-> rows, nextId |-> id]
    ELSE With(CHOOSE n \in 1..(MaxRows + MaxBatch + 1) :
                 /\ \A r \in rows : r.id < n
                 /\ n = 1 \/ \E r \in rows : r.id = n - 1, LAMBDA rowid :
            insertManyByRowid(rows \cup {NewRow(rowid, Head(batch), OrElse(Head(batch).who, person), person)},
                              rowid + 1, Tail(batch), person))

\* one transaction of plain INSERTs; the schema has no constraint that title,
\* present in every descriptor, could break, so the transaction commits.  No
\* message is sent.
RECURSIVE insertMany(_, _, _, _)
insertMany(rows, id, batch, person) ==
    IF batch = <<>> THEN [rows |-> rows, nextId |-> id]
    ELSE insertMany(rows \cup {NewRow(id, Head(batch), OrElse(Head(batch).who, person), person)},
                    id + 1, Tail(batch), person)

processTasks(newTasks, person) ==
    /\ deployment = "index"
    /\ \E done \in {insertMany(tasks, nextId, newTasks, person)} :
          /\ done.nextId - 1 <= MaxRows
          /\ tasks' = done.rows
          /\ nextId' = done.nextId
    /\ reply' = Msg("processTasks", "", 0, <<>>, <<>>)
    /\ UNCHANGED <<deployment, now, lastCleanup, archive, sweeps>>

---------------------------------------------------------------------------
(* completeTasks *)

Targets ==
    { <<"m","i","l","c","h">>,
      <<"M","i","l","z">>,
      <<"e","d","e","k","a"," ","a","l","l","e","s">> }

Identifiers == UNION {[1..n -> Targets] : n \in 1..MaxIdents}

\* the order in which a SELECT without ORDER BY returns rows is not defined:
\* every order of the ids is possible
Orders == {o \in [1..MaxRows -> 1..MaxRows] : \A i, j \in 1..MaxRows : o[i] = o[j] => i = j}

\* the rows S as the SELECT returns them under order o
InOrder(S, o) ==
    With(SelectSeq(o, LAMBDA i : \E r \in S : r.id = i),
         LAMBDA ids : [k \in 1..Len(ids) |-> CHOOSE r \in S : r.id = ids[k]])

\* the rows of the person, the completed ones among them
ActiveOrCompleted(rows, person) == {r \in rows : r.who = person}

Active(rows, person) == {r \in rows : r.completed = 0 /\ r.who = person}

\* WHERE completed = 0 AND who = ? AND title LIKE '%' || x || '%'
Matching(rows, person, x) == {r \in Active(rows, person) : Like(r.title, x)}

\* WHERE completed = 0 AND who = ? AND (where_text LIKE '%Edeka%' OR title LIKE '%Edeka%')
EdekaTasks(rows, person) ==
    {r \in Active(rows, person) : Like(r.where_text, Edeka) \/ Like(r.title, Edeka)}

geschirr == <<"g","e","s","c","h","i","r","r">>
spuel == <<"s","p","ü","l">>

\* WHERE completed = 0 AND who = ? AND (title LIKE '%küche%' OR ... '%geschirr%' OR ... '%spül%')
KitchenTasks(rows, person) ==
    {r \in Active(rows, person) :
        Like(r.title, kueche) \/ Like(r.title, geschirr) \/ Like(r.title, spuel)}

EdekaRequest(identifier) ==
    With(toLowerCase(identifier), LAMBDA l :
        /\ includes(l, <<"e","d","e","k","a">>)
        /\ \/ includes(l, <<"z","e","u","g">>)
           \/ includes(l, <<"s","a","c","h","e","n">>)
           \/ includes(l, <<"a","l","l","e","s">>))

KitchenRequest(identifier) ==
    toLowerCase(identifier) \in {kueche \o <<" ","f","e","r","t","i","g">>, kueche}

\* SET completed = 1, completedAt = ?, completedBy = ?
Completed(r, person) ==
    [r EXCEPT !.completed = 1, !.completedAt = <<now>>, !.completedBy = person]

\* an UPDATE that completes the rows hit in one statement: the new table, or
\* the old one when the statement breaks UNIQUE(title, who, completed)
UpdateCompleted(rows, hit, person) ==
    With((rows \ hit) \cup {Completed(r, person) : r \in hit}, LAMBDA new :
        IF \E r \in new : Conflicts(new, r)
        THEN [rows |-> rows, threw |-> TRUE]
        ELSE [rows |-> new, threw |-> FALSE])

\* for (const task of tasks) { stmt.run(..., task.id); completed++ }
RECURSIVE completeInTurn(_, _, _)
completeInTurn(acc, todo, person) ==
    IF todo = <<>> \/ acc.threw THEN acc
    ELSE With(UpdateCompleted(acc.rows, {Head(todo)}, person), LAMBDA upd :
             IF upd.threw THEN [acc EXCEPT !.threw = TRUE]
             ELSE completeInTurn([acc EXCEPT !.rows = upd.rows, !.completed = @ + 1],
                                 Tail(todo), person))

\* the shortcut of completeTasks in src/unnamed/part_005: the rows found are
\* completed one statement after the other, then one line names them
completeFound(acc, found, person, line) ==
    With(completeInTurn(acc, found, person), LAMBDA done :
        IF done.threw \/ found = <<>> THEN done
        ELSE [done EXCEPT !.completedTitles = Append(@, line)])

\* UPDATE ... WHERE completed = 0 AND who = ? AND title LIKE ?: one statement
\* for all the rows hit, counted once
completeHit(acc, hit, person, identifier) ==
    With(UpdateCompleted(acc.rows, hit, person), LAMBDA upd :
        IF upd.threw THEN [acc EXCEPT !.threw = TRUE]
        ELSE IF hit = {} THEN acc
        ELSE [acc EXCEPT !.rows = upd.rows, !.completed = @ + 1,
                         !.completedTitles = Append(@, Line("", 0, identifier))])

\* the body of the loop over taskIdentifiers, src/unnamed/part_005
completeOne(acc, identifier, person, order) ==
    IF EdekaRequest(identifier)
    THEN With(InOrder(EdekaTasks(acc.rows, person), order), LAMBDA found :
             completeFound(acc, found, person, Line("Edeka erledigt", Len(found), <<>>)))
    ELSE IF KitchenRequest(identifier)
    THEN completeFound(acc, InOrder(KitchenTasks(acc.rows, person), order), person,
                       Line("Küche fertig!", 0, <<>>))
    ELSE completeHit(acc, Matching(acc.rows, person, identifier), person, identifier)

RECURSIVE completeAll(_, _, _, _)
completeAll(acc, identifiers, person, order) ==
    IF identifiers = <<>> \/ acc.threw THEN acc
    ELSE completeAll(completeOne(acc, Head(identifiers), person, order),
                     Tail(identifiers), person, order)

\* a string of the message is truthy when it is not empty
Truthy(line) == line.kind # "" \/ line.text # <<>>

\* title begins with x, letters compared without case
StartsWith(title, x) ==
    Len(title) >= Len(x) /\ lower(SubSeq(title, 1, Len(x))) = lower(x)

\* notFound with the first three characters looked up at the beginning of the
\* titles only
notFoundByPrefix(op, none, rows, identifier, person, order) ==
    With(InOrder({r \in Active(rows, person) : StartsWith(r.title, substring(identifier, 3))},
                 order),
         LAMBDA similar :
            IF similar # <<>>
            THEN Msg(op, "nicht gefunden. Meintest du: ", 0,
                     similar[1].title, <<Line("", 0, identifier)>>)
            ELSE Msg(op, none, 0, <<>>, <<>>))

\* the message of editTask, completeTasks and deleteTasks when nothing matched
\* the identifier: the first three characters are looked up anywhere in the
\* titles of the person's active tasks
notFound(op, none, rows, identifier, person, order) ==
    With(InOrder(Matching(rows, person, substring(identifier, 3)), order), LAMBDA similar :
        IF similar # <<>>
        THEN Msg(op, "nicht gefunden. Meintest du: ", 0,
                 similar[1].title, <<Line("", 0, identifier)>>)
        ELSE Msg(op, none, 0, <<>>, <<>>))

\* the message after the loop of completeTasks (both handlers.js); (check)
\* stands for the check mark
completeReply(done, taskIdentifiers, person, order) ==
    IF done.threw
    THEN Msg("completeTasks", "Fehler beim Erledigen.", 0, <<>>, <<>>)
    ELSE IF done.completed = 0
    THEN notFound("completeTasks", "Nichts gefunden.", done.rows, taskIdentifiers[1],
                  person, order)
    ELSE IF done.completed = 1 /\ done.completedTitles # <<>>
            /\ Truthy(done.completedTitles[1])
    THEN Msg("completeTasks", "(check) ", 0, <<>>, <<done.completedTitles[1]>>)
    ELSE IF \E k \in 1..Len(done.completedTitles) : Truthy(done.completedTitles[k])
            \/ Len(done.completedTitles) > 1
    THEN Msg("completeTasks", "join", 0, <<>>, done.completedTitles)
    ELSE Msg("completeTasks", " erledigt (check)", done.completed, <<>>, <<>>)

StartCompleting == [rows |-> tasks, completed |-> 0, completedTitles |-> <<>>, threw |-> FALSE]

completeTasks(taskIdentifiers, person, order) ==
    /\ deployment = "handlers"
    /\ \E done \in {completeAll(StartCompleting, taskIdentifiers, person, order)} :
          /\ tasks' = done.rows
          /\ reply' = completeReply(done, taskIdentifiers, person, order)
    /\ UNCHANGED <<deployment, nextId, now, lastCleanup, archive, sweeps>>

(* completeTasks, src/handlers.js *)

\* result.lastInsertRowid after an UPDATE: the rowid of the last INSERT of the
\* connection, which AUTOINCREMENT makes the highest id given out so far
lastInsertRowid == nextId - 1

\* the shortcut of completeTasks in src/handlers.js: one UPDATE for all the
\* rows hit, result.changes of them counted
completeShortcutV1(acc, hit, person, line) ==
    With(UpdateCompleted(acc.rows, hit, person), LAMBDA upd :
        IF upd.threw THEN [acc EXCEPT !.threw = TRUE]
        ELSE IF hit = {} THEN acc
        ELSE [acc EXCEPT !.rows = upd.rows, !.completed = @ + Cardinality(hit),
                         !.completedTitles = Append(@, line)])

\* the standard completion of src/handlers.js: one UPDATE for all the rows
\* hit, then SELECT title FROM tasks WHERE id = result.lastInsertRowid
completeHitV1(acc, hit, person) ==
    With(UpdateCompleted(acc.rows, hit, person), LAMBDA upd :
        IF upd.threw THEN [acc EXCEPT !.threw = TRUE]
        ELSE IF hit = {} THEN acc
        ELSE [acc EXCEPT !.rows = upd.rows, !.completed = @ + 1,
                         !.completedTitles =
                             IF \E r \in upd.rows : r.id = lastInsertRowid
                             THEN Append(@, Line("", 0,
                                     (CHOOSE r \in upd.rows : r.id = lastInsertRowid).title))
                             ELSE @])

completeOneV1(acc, identifier, person) ==
    IF EdekaRequest(identifier)
    THEN With(EdekaTasks(acc.rows, person), LAMBDA hit :
             completeShortcutV1(acc, hit, person,
                                Line("Edeka erledigt", Cardinality(hit), <<>>)))
    ELSE IF KitchenRequest(identifier)
    THEN completeShortcutV1(acc, KitchenTasks(acc.rows, person), person,
                            Line("Küche fertig!", 0, <<>>))
    ELSE completeHitV1(acc, Matching(acc.rows, person, identifier), person)

RECURSIVE completeAllV1(_, _, _)
completeAllV1(acc, identifiers, person) ==
    IF identifiers = <<>> \/ acc.threw THEN acc
    ELSE completeAllV1(completeOneV1(acc, Head(identifiers), person),
                       Tail(identifiers), person)

completeTasksV1(taskIdentifiers, person, order) ==
    /\ deployment = "handlers_v1"
    /\ \E done \in {completeAllV1(StartCompleting, taskIdentifiers, person)} :
          /\ tasks' = done.rows
          /\ reply' = completeReply(done, taskIdentifiers, person, order)
    /\ UNCHANGED <<deployment, nextId, now, lastCleanup, archive, sweeps>>

---------------------------------------------------------------------------
(* deleteTasks and clearAllTasks, the same code in src/unnamed/part_005 and *)
(* src/handlers.js                                                          *)

\* deleteAll with the rows hit marked completed and kept in the table
completeInsteadOfDelete(acc, identifiers, person) ==
    IF identifiers = <<>> THEN acc
    ELSE With(Matching(acc.rows, person, Head(identifiers)), LAMBDA hit :
             [rows |-> (acc.rows \ hit) \cup {Completed(r, person) : r \in hit},
              deleted |-> acc.deleted + (IF hit = {} THEN 0 ELSE 1)])

\* for (const identifier of taskIdentifiers) { DELETE ...; if (changes > 0) deleted++ }
RECURSIVE deleteAll(_, _, _)
deleteAll(acc, identifiers, person) ==
    IF identifiers = <<>> THEN acc
    ELSE With(Matching(acc.rows, person, Head(identifiers)), LAMBDA hit :
             deleteAll([rows |-> acc.rows \ hit,
                        deleted |-> acc.deleted + (IF hit = {} THEN 0 ELSE 1)],
                       Tail(identifiers), person))

deleteTasks(taskIdentifiers, person, order) ==
    /\ deployment \in {"handlers", "handlers_v1"}
    /\ \E done \in {deleteAll([rows |-> tasks, deleted |-> 0], taskIdentifiers, person)} :
          /\ tasks' = done.rows
          /\ reply' =
               IF done.deleted = 0
               THEN notFound("deleteTasks", "Nichts gefunden.", done.rows,
                             taskIdentifiers[1], person, order)
               ELSE IF done.deleted = 1
               THEN Msg("deleteTasks", "Gelöscht.", 0, <<>>, <<>>)
               ELSE Msg("deleteTasks", " gelöscht.", done.deleted, <<>>, <<>>)
    /\ UNCHANGED <<deployment, nextId, now, lastCleanup, archive, sweeps>>

clearAllTasks(person) ==
    /\ deployment \in {"handlers", "handlers_v1"}
    /\ \E upd \in {UpdateCompleted(tasks, Active(tasks, person), person)} :
          /\ tasks' = upd.rows
          /\ reply' =
               IF upd.threw
               THEN Msg("clearAllTasks", "Fehler beim Löschen.", 0, <<>>, <<>>)
               ELSE Msg("clearAllTasks", " Aufgaben gelöscht.",
                        Cardinality(Active(tasks, person)), <<>>, <<>>)
    /\ UNCHANGED <<deployment, nextId, now, lastCleanup, archive, sweeps>>

---------------------------------------------------------------------------
(* editTask *)

\* the argument taskIdentifier of editTask
EditTargets ==
    { <<"m","i","l","c","h">>,
      <<"M","i","l","z">>,
      <<"e","d","e","k","a">> }

\* the argument updates of editTask: a record of the fields that are present
Updates ==
    { [newTitle |-> PaddedMilch],
      [newWhere |-> <<>>],
      [who |-> "Ben"] }

Has(updates, key) == key \in DOMAIN updates

\* the row after an UPDATE that sets the title and always sets where_text,
\* to NULL when no newWhere is given
EditedAndMoved(task, updates, title) ==
    [task EXCEPT
        !.title = IF Has(updates, "newTitle") /\ updates.newTitle # <<>> THEN title ELSE @,
        !.where_text = IF Has(updates, "newWhere") THEN OrNull(updates.newWhere) ELSE NULL]

\* the row after UPDATE tasks SET ... WHERE id = ?, built from the fields
\* present: newTitle, newCategory and newImportance when truthy, newWhen and
\* newWhere when not undefined
Edited(task, updates, title) ==
    [task EXCEPT
        !.title = IF Has(updates, "newTitle") /\ updates.newTitle # <<>> THEN title ELSE @,
        !.when_text = IF Has(updates, "newWhen") THEN OrNull(updates.newWhen) ELSE @,
        !.where_text = IF Has(updates, "newWhere") THEN OrNull(updates.newWhere) ELSE @,
        !.category = IF Has(updates, "newCategory") /\ updates.newCategory # ""
                     THEN updates.newCategory ELSE @,
        !.importance = IF Has(updates, "newImportance") /\ updates.newImportance # ""
                       THEN updates.newImportance ELSE @]

\* the test for an updates object with no field at all
NoUpdates(updates) == DOMAIN updates = {}

\* updateFields.length === 0
NothingToUpdate(updates) ==
    /\ ~(Has(updates, "newTitle") /\ updates.newTitle # <<>>)
    /\ ~Has(updates, "newWhen")
    /\ ~Has(updates, "newWhere")
    /\ ~(Has(updates, "newCategory") /\ updates.newCategory # "")
    /\ ~(Has(updates, "newImportance") /\ updates.newImportance # "")

\* UPDATE tasks SET ... WHERE id = ? for the first task found, and the message
editFound(task, new) ==
    IF Conflicts(tasks, new)
    THEN /\ tasks' = tasks
         /\ reply' = Msg("editTask", "Fehler beim Bearbeiten.", 0, <<>>, <<>>)
    ELSE /\ tasks' = (tasks \ {task}) \cup {new}
         /\ reply' = Msg("editTask", "Aktualisiert", 0, <<>>, <<>>)

\* editTask of src/unnamed/part_005; title is what newTitle is stored as
editWith(taskIdentifier, updates, person, order, title) ==
    \E found \in {InOrder(Matching(tasks, person, taskIdentifier), order)} :
        IF found = <<>>
        THEN /\ tasks' = tasks
             /\ reply' = notFound("editTask", "Aufgabe nicht gefunden.", tasks,
                                  taskIdentifier, person, order)
        ELSE IF NothingToUpdate(updates)
        THEN /\ tasks' = tasks
             /\ reply' = Msg("editTask", "Nichts zu ändern.", 0, <<>>, <<>>)
        ELSE \E new \in {Edited(found[1], updates, title)} : editFound(found[1], new)

editTask(taskIdentifier, updates, person, order) ==
    /\ deployment = "handlers"
    /\ editWith(taskIdentifier, updates, person, order,
                IF Has(updates, "newTitle") THEN normalizeTask(updates.newTitle) ELSE <<>>)
    /\ UNCHANGED <<deployment, nextId, now, lastCleanup, archive, sweeps>>

\* editTask of src/handlers.js stores newTitle as it is given
editTaskV1(taskIdentifier, updates, person, order) ==
    /\ deployment = "handlers_v1"
    /\ editWith(taskIdentifier, updates, person, order,
                IF Has(updates, "newTitle") THEN updates.newTitle ELSE <<>>)
    /\ UNCHANGED <<deployment, nextId, now, lastCleanup, archive, sweeps>>

---------------------------------------------------------------------------
(* The operation handlers of the single-file bot, src/unnamed/part_001 *)

\* WHERE completed = 0 AND who = ? AND lower(title) LIKE '%' || x || '%'
MatchingLower(rows, person, x) == {r \in Active(rows, person) : Like(lower(r.title), x)}

\* the details of an edit operation: a record of the fields that are present
Details ==
    { [who |-> "Ben", completed |-> 1],
      [completed |-> 1] }

\* validColumns with the column completed among them
validColumnsAndCompleted ==
    {"title", "who", "when_text", "where_text", "importance", "category", "completed"}

validColumns == {"title", "who", "when_text", "where_text", "importance", "category"}

\* UPDATE tasks SET <every valid column of details> = ? WHERE id = ?
EditedColumns(task, details) ==
    [c \in DOMAIN task |->
        IF c \in validColumns /\ c \in DOMAIN details THEN details[c] ELSE task[c]]

handleEdit(target, details, person, order) ==
    /\ deployment = "index"
    /\ \E found \in {InOrder(MatchingLower(tasks, person, toLowerCase(target)), order)} :
          IF target = <<>> \/ DOMAIN details = {}
          THEN /\ tasks' = tasks
               /\ reply' = Msg("handleEdit", "What do you want to change", 0, <<>>, <<>>)
          ELSE IF found = <<>>
          THEN /\ tasks' = tasks
               /\ reply' = Msg("handleEdit", "I can't find the task", 0, target, <<>>)
          ELSE IF DOMAIN details \cap validColumns = {}
          THEN /\ tasks' = tasks
               /\ reply' = Msg("handleEdit", "None of those are things I can change.",
                               0, <<>>, <<>>)
          ELSE /\ tasks' = (tasks \ {found[1]}) \cup {EditedColumns(found[1], details)}
               /\ reply' = Msg("handleEdit", "Okay, I've updated the task.", 0, <<>>, <<>>)
    /\ UNCHANGED <<deployment, nextId, now, lastCleanup, archive, sweeps>>

\* UPDATE tasks SET completed = 1, ... WHERE completed = 0: the tasks of everybody
handleClearAll(person) ==
    /\ deployment = "index"
    /\ \E hit \in {{r \in tasks : r.completed = 0}} :
          /\ tasks' = (tasks \ hit) \cup {Completed(r, person) : r \in hit}
          /\ reply' = Msg("handleClearAll", "Cleared tasks.", Cardinality(hit), <<>>, <<>>)
    /\ UNCHANGED <<deployment, nextId, now, lastCleanup, archive, sweeps>>

\* target.toLowerCase().replace('done', '').replace('bought', '').trim()
cleaned(target) ==
    trim(replace(replace(toLowerCase(target), <<"d","o","n","e">>, <<>>),
                 <<"b","o","u","g","h","t">>, <<>>))

\* ORDER BY length(title) ASC LIMIT 1: a shortest of the rows found, any of
\* them when several are as short
shortest(found, order) ==
    InOrder({r \in found : \A q \in found : Len(r.title) <= Len(q.title)}, order)[1]

\* the message after a completion is one of five words picked at random, all
\* of them modelled by the first
handleComplete(target, person, order) ==
    /\ deployment = "index"
    /\ \E targetLower \in {cleaned(target)} :
       \E found \in {MatchingLower(tasks, person, targetLower)} :
          IF targetLower = <<>>
          THEN /\ tasks' = tasks
               /\ reply' = Msg("handleComplete", "What exactly is done?", 0, <<>>, <<>>)
          ELSE IF found = {}
          THEN /\ tasks' = tasks
               /\ reply' = Msg("handleComplete", "Can't find a task like", 0, target, <<>>)
          ELSE \E task \in {shortest(found, order)} :
               /\ tasks' = (tasks \ {task}) \cup {Completed(task, person)}
               /\ reply' = Msg("handleComplete", "Done.", 0, <<>>, <<>>)
    /\ UNCHANGED <<deployment, nextId, now, lastCleanup, archive, sweeps>>

handleRemove(target, person, order) ==
    /\ deployment = "index"
    /\ \E found \in {InOrder(MatchingLower(tasks, person, toLowerCase(target)), order)} :
          IF target = <<>>
          THEN /\ tasks' = tasks
               /\ reply' = Msg("handleRemove", "What exactly should I remove?", 0, <<>>, <<>>)
          ELSE IF found = <<>>
          THEN /\ tasks' = tasks
               /\ reply' = Msg("handleRemove", "Can't find that one on your list", 0,
                               <<>>, <<>>)
          ELSE /\ tasks' = tasks \ {found[1]}
               /\ reply' = Msg("handleRemove", "Fine. Removed", 0, found[1].title, <<>>)
    /\ UNCHANGED <<deployment, nextId, now, lastCleanup, archive, sweeps>>

---------------------------------------------------------------------------
(* listTasks and suggestTasks, the same code in src/unnamed/part_005 and   *)
(* src/handlers.js; handleList of src/unnamed/part_001                     *)

\* the words of importance and category in the order of SQLite's BINARY
\* collation
Words == <<"general", "household", "low", "normal", "personal", "shopping", "urgent", "work">>

WordRank(w) == CHOOSE i \in 1..Len(Words) : Words[i] = w

\* the characters in the order of their code points
CodePoints ==
    <<"\t", "\n", " ">> \o AsciiUpper \o AsciiLower
    \o <<"Ä", "Ö", "Ü", "ß", "ä", "ö", "ü">>

CharRank == [c \in Chars |-> CHOOSE i \in 1..Len(CodePoints) : CodePoints[i] = c]

\* a < b for two texts; NULL sorts before every text
TextBefore(a, b) ==
    IF a = NULL \/ b = NULL THEN a = NULL /\ b # NULL
    ELSE \/ \E k \in 1..Len(a) :
              /\ k <= Len(b)
              /\ SubSeq(a, 1, k - 1) = SubSeq(b, 1, k - 1)
              /\ CharRank[a[k]] < CharRank[b[k]]
         \/ Len(a) < Len(b) /\ a = SubSeq(b, 1, Len(a))

Position(order, id) == CHOOSE k \in 1..Len(order) : order[k] = id

\* the rows S sorted by a strict order Before
Sorted(S, Before(_, _)) ==
    [k \in 1..Cardinality(S) |->
        CHOOSE r \in S : Cardinality({q \in S : Before(q, r)}) = k - 1]

\* ORDER BY importance DESC, category; rows with equal keys in any order
ByImportance(S, order) ==
    Sorted(S, LAMBDA q, r :
        \/ WordRank(q.importance) > WordRank(r.importance)
        \/ /\ q.importance = r.importance
           /\ \/ WordRank(q.category) < WordRank(r.category)
              \/ /\ q.category = r.category
                 /\ Position(order, q.id) < Position(order, r.id))

\* the heading a task is listed under
Heading(task) ==
    IF task.importance = "urgent" THEN "DRINGEND"
    ELSE IF task.category = "shopping" THEN "EINKAUFEN"
    ELSE IF task.category = "household" THEN "HAUSHALT"
    ELSE IF task.category = "work" THEN "ARBEIT"
    ELSE IF task.category = "personal" THEN "PERSÖNLICH"
    ELSE "ALLGEMEIN"

\* the lines of a message that names tasks: for each task its heading, its
\* title and, for the reader of the model, its id
TaskLines(found, heading(_)) ==
    [k \in 1..Len(found) |-> Line(heading(found[k]), found[k].id, found[k].title)]

Scopes == {"personal", "all"}

\* listTasks without the test of the scope: the active tasks of everybody
listTasksOfEverybody(scope, person, order) ==
    /\ deployment \in {"handlers", "handlers_v1"}
    /\ \E found \in {ByImportance({r \in tasks : r.completed = 0}, order)} :
          reply' = IF found = <<>>
                   THEN Msg("listTasks", "Alles erledigt!", 0, <<>>, <<>>)
                   ELSE Msg("listTasks", "Gesamt: ", Len(found), <<>>, TaskLines(found, Heading))
    /\ UNCHANGED <<deployment, tasks, nextId, now, lastCleanup, archive, sweeps>>

listTasks(scope, person, order) ==
    /\ deployment \in {"handlers", "handlers_v1"}
    /\ \E found \in
            {ByImportance({r \in tasks : r.completed = 0 /\ (scope = "personal" => r.who = person)},
                          order)} :
          reply' = IF found = <<>>
                   THEN Msg("listTasks", "Alles erledigt!", 0, <<>>, <<>>)
                   ELSE Msg("listTasks", "Gesamt: ", Len(found), <<>>, TaskLines(found, Heading))
    /\ UNCHANGED <<deployment, tasks, nextId, now, lastCleanup, archive, sweeps>>

\* ORDER BY category, importance DESC, where_text
ByCategory(S, order) ==
    Sorted(S, LAMBDA q, r :
        \/ WordRank(q.category) < WordRank(r.category)
        \/ /\ q.category = r.category
           /\ \/ WordRank(q.importance) > WordRank(r.importance)
              \/ /\ q.importance = r.importance
                 /\ \/ TextBefore(q.where_text, r.where_text)
                    \/ /\ q.where_text = r.where_text
                       /\ Position(order, q.id) < Position(order, r.id))

HeadingOfIndex(task) == IF task.importance = "urgent" THEN "URGENT" ELSE task.category

handleList(target, person, order) ==
    /\ deployment = "index"
    /\ \E found \in
            {ByCategory({r \in tasks : r.completed = 0 /\ (target = "personal" => r.who = person)},
                        order)} :
          reply' = IF found = <<>>
                   THEN Msg("handleList",
                            IF target = "personal" THEN "You have nothing to do."
                            ELSE "There are no tasks.", 0, <<>>, <<>>)
                   ELSE Msg("handleList", "", 0, <<>>, TaskLines(found, HeadingOfIndex))
    /\ UNCHANGED <<deployment, tasks, nextId, now, lastCleanup, archive, sweeps>>

\* words.some(task => titleLower.includes(task))
some(words, titleLower) == \E w \in words : includes(titleLower, w)

quickTasks ==
    {<<"l","ü","f","t","e","n">>, <<"m","ü","l","l">>, <<"p","o","s","t">>,
     <<"s","p","ü","l","m","a","s","c","h","i","n","e"," ","a","u","s">>}
mediumTasks ==
    {<<"s","a","u","g","e","n">>, <<"w","i","s","c","h","e","n">>,
     <<"a","u","f","r","ä","u","m","e","n">>, <<"e","i","n","k","a","u","f","e","n">>}
longTasks ==
    {<<"p","u","t","z","e","n">>, <<"w","a","s","c","h","e","n">>,
     <<"k","o","c","h","e","n">>, <<"g","a","r","t","e","n">>}

\* estimateTaskDuration: minutes by the first list a word of which the title holds
estimateTaskDuration(title) ==
    With(toLowerCase(title), LAMBDA titleLower :
        IF some(quickTasks, titleLower) THEN 5
        ELSE IF some(mediumTasks, titleLower) THEN 20
        ELSE IF some(longTasks, titleLower) THEN 45
        ELSE 15)

\* the arguments of suggestTasks; a field that is missing is 0 or the empty text
SuggestArgs ==
    { [timeAvailable |-> 0, count |-> 0, context |-> <<"b","e","i"," ","E","d","e","k","a">>],
      [timeAvailable |-> 20, count |-> 0, context |-> <<>>],
      [timeAvailable |-> 0, count |-> 1, context |-> <<>>] }

\* for (const task of tasks) { if (duration <= remainingTime) { push; ...; break } }
RECURSIVE fitting(_, _, _, _)
fitting(todo, remainingTime, taken, most) ==
    IF todo = <<>> \/ taken >= most THEN <<>>
    ELSE With(estimateTaskDuration(Head(todo).title), LAMBDA duration :
             IF duration <= remainingTime
             THEN <<Head(todo)>>
                  \o fitting(Tail(todo), remainingTime - duration, taken + 1, most)
             ELSE fitting(Tail(todo), remainingTime, taken, most))

bei == <<"b","e","i"," ">>

\* the tasks of the person at the place the context names, and the message
suggestNear(location, person, order) ==
    With(InOrder({r \in Active(tasks, person) :
                     Like(r.where_text, location) \/ Like(r.title, location)}, order),
         LAMBDA near :
            IF near = <<>>
            THEN Msg("suggestTasks", "Nichts bei zu erledigen.", 0, location, <<>>)
            ELSE Msg("suggestTasks", "Bei ", 0, location, TaskLines(near, LAMBDA t : "")))

\* the message that suggests some of the tasks found, the most important first
suggestFound(found, args, most) ==
    IF found = <<>>
    THEN Msg("suggestTasks", "Keine Aufgaben vorhanden.", 0, <<>>, <<>>)
    ELSE IF args.timeAvailable # 0
    THEN With(fitting(found, args.timeAvailable, 0, most), LAMBDA fit :
             Msg("suggestTasks", " Min reichen für:", args.timeAvailable, <<>>,
                 TaskLines(IF fit = <<>> THEN <<found[1]>> ELSE fit, LAMBDA t : "")))
    ELSE Msg("suggestTasks", "Mach das als nächstes:", 0, <<>>,
             TaskLines(SubSeq(found, 1, IF Len(found) < most THEN Len(found) ELSE most),
                       LAMBDA t : ""))

suggestTasks(args, person, order) ==
    /\ deployment \in {"handlers", "handlers_v1"}
    /\ reply' =
         IF includes(toLowerCase(args.context), bei)
         THEN suggestNear(trim(replace(toLowerCase(args.context), bei, <<>>)), person, order)
         ELSE suggestFound(ByImportance(Active(tasks, person), order), args,
                           IF args.count = 0 THEN 3 ELSE args.count)
    /\ UNCHANGED <<deployment, tasks, nextId, now, lastCleanup, archive, sweeps>>

Next ==
    \/ \E batch \in Batches, person \in Persons :
          createTasks(batch, person) /\ Handling("createTasks", person, batch)
    \/ \E batch \in Batches, person \in Persons :
          createTasksV1(batch, person) /\ Handling("createTasks", person, batch)
    \/ \E newTasks \in NewTasks, person \in Persons :
          processTasks(newTasks, person) /\ Handling("processTasks", person, newTasks)
    \/ \E ids \in Identifiers, person \in Persons, order \in Orders :
          completeTasks(ids, person, order) /\ Handling("completeTasks", person, ids)
    \/ \E ids \in Identifiers, person \in Persons, order \in Orders :
          completeTasksV1(ids, person, order) /\ Handling("completeTasks", person, ids)
    \/ \E ids \in Identifiers, person \in Persons, order \in Orders :
          deleteTasks(ids, person, order) /\ Handling("deleteTasks", person, ids)
    \/ \E person \in Persons :
          clearAllTasks(person) /\ Handling("clearAllTasks", person, <<>>)
    \/ \E target \in EditTargets, updates \in Updates, person \in Persons, order \in Orders :
          editTask(target, updates, person, order)
          /\ Handling("editTask", person, <<target, updates>>)
    \/ \E target \in EditTargets, updates \in Updates, person \in Persons, order \in Orders :
          editTaskV1(target, updates, person, order)
          /\ Handling("editTask", person, <<target, updates>>)
    \/ \E target \in Targets, details \in Details, person \in Persons, order \in Orders :
          handleEdit(target, details, person, order)
          /\ Handling("handleEdit", person, <<target, details>>)
    \/ \E person \in Persons :
          handleClearAll(person) /\ Handling("handleClearAll", person, <<>>)
    \/ \E target \in Targets, person \in Persons, order \in Orders :
          handleComplete(target, person, order) /\ Handling("handleComplete", person, <<target>>)
    \/ \E target \in Targets, person \in Persons, order \in Orders :
          handleRemove(target, person, order) /\ Handling("handleRemove", person, <<target>>)
    \/ \E scope \in Scopes, person \in Persons, order \in Orders :
          listTasks(scope, person, order) /\ Handling("listTasks", person, <<scope>>)
    \/ \E scope \in Scopes, person \in Persons, order \in Orders :
          handleList(scope, person, order) /\ Handling("handleList", person, <<scope>>)
    \/ \E args \in SuggestArgs, person \in Persons, order \in Orders :
          suggestTasks(args, person, order) /\ Handling("suggestTasks", person, <<args>>)

Spec == Init /\ [][Next]_vars

---------------------------------------------------------------------------
(* monthlyCleanup, the same code in src/index.js and src/unnamed/part_001.  *)
(* It runs at startup and then once a day; it is an async function, so a run *)
(* is suspended at  await fs.writeFile  while other handlers and other runs  *)
(* go on.                                                                    *)

\* the days of  30 * 24 * 60 * 60 * 1000  and of  cutoff.getDate() - 30
Retention == 30

\* oldTasksOf without the test of the age: every completed row
completedTasksOf(rows, cutoff) == {r \in rows : r.completed = 1}

\* SELECT * FROM tasks WHERE completed = 1 AND completedAt < ?
oldTasksOf(rows, cutoff) ==
    {r \in rows : r.completed = 1 /\ r.completedAt # NoTime /\ r.completedAt[1] < cutoff}

\* the bot processes that run on the store
MaxProcesses == 2
Processes == 1..MaxProcesses

\* a run suspended at the await: the process it runs in, the day it started,
\* its cutoff and the rows it is writing to the file archive_<day>.json
Run(process, day, cutoff, oldTasks) ==
    [process |-> process, now |-> day, cutoff |-> cutoff, oldTasks |-> oldTasks]

\* the archive after content was written to the file of the day
writeFile(day, content) ==
    [f \in DOMAIN archive \cup {day} |-> IF f = day THEN content ELSE archive[f]]

\* a run in process p from its start to the await, or to its end when it does
\* not write; the timer of a process starts its next run a day later, when
\* the run before has ended
monthlyCleanup(p) ==
    /\ deployment = "index"
    /\ \A run \in sweeps : run.process # p
    /\ IF now - lastCleanup < Retention
       THEN UNCHANGED <<lastCleanup, sweeps>>
       ELSE \E oldTasks \in {oldTasksOf(tasks, now - Retention)} :
               IF oldTasks = {}
               THEN /\ lastCleanup' = now
                    /\ sweeps' = sweeps
               ELSE /\ sweeps' = sweeps \cup {Run(p, now, now - Retention, oldTasks)}
                    /\ lastCleanup' = lastCleanup
    /\ UNCHANGED <<deployment, tasks, nextId, now, archive, reply, request, received, awaiting, ended,
               conversations, shortTermMemory, conversation_history>>

\* monthlyCleanupWritten with the rows deleted whether they are old or not
monthlyCleanupDeletingAll(run) ==
    /\ run \in sweeps
    /\ archive' = writeFile(run.now, run.oldTasks)
    /\ tasks' = {r \in tasks : r.completed # 1}
    /\ lastCleanup' = run.now
    /\ sweeps' = sweeps \ {run}
    /\ UNCHANGED <<deployment, nextId, now, reply, request, received, awaiting, ended,
               conversations, shortTermMemory, conversation_history>>

\* the promise of fs.writeFile resolves: DELETE FROM tasks WHERE completed = 1
\* AND completedAt < cutoff, then UPDATE knowledge SET value = now
monthlyCleanupWritten(run) ==
    /\ run \in sweeps
    /\ archive' = writeFile(run.now, run.oldTasks)
    /\ tasks' = tasks \ oldTasksOf(tasks, run.cutoff)
    /\ lastCleanup' = run.now
    /\ sweeps' = sweeps \ {run}
    /\ UNCHANGED <<deployment, nextId, now, reply, request, received, awaiting, ended,
               conversations, shortTermMemory, conversation_history>>

\* the promise rejects: the run ends with the exception, whatever part of the
\* file was written holds no task
monthlyCleanupFailed(run) ==
    /\ run \in sweeps
    /\ archive' \in {archive, writeFile(run.now, {})}
    /\ sweeps' = sweeps \ {run}
    /\ UNCHANGED <<deployment, tasks, nextId, now, lastCleanup, reply, request, received, awaiting, ended,
               conversations, shortTermMemory, conversation_history>>

\* the clock of the bot, in days
TickDays == 15
MaxDay == 60

Tick ==
    /\ now + TickDays <= MaxDay
    /\ now' = now + TickDays
    /\ UNCHANGED <<deployment, tasks, nextId, lastCleanup, archive, sweeps, reply, request, received, awaiting, ended,
               conversations, shortTermMemory, conversation_history>>

InitSweep == Init /\ deployment = "index"

NextSweep ==
    \/ Tick
    \/ \E p \in Processes : monthlyCleanup(p)
    \/ \E run \in sweeps : monthlyCleanupWritten(run)
    \/ \E run \in sweeps : monthlyCleanupFailed(run)
    \/ \E newTasks \in {<<Descriptor(Milch, Edeka, "")>>} :
          processTasks(newTasks, "Anna") /\ Handling("processTasks", "Anna", newTasks)
    \/ handleClearAll("Anna") /\ Handling("handleClearAll", "Anna", <<>>)
    \/ \E order \in Orders :
          handleComplete(<<"m","i","l","c","h">>, "Anna", order)
          /\ Handling("handleComplete", "Anna", <<<<"m","i","l","c","h">>>>)

SweepSpec == InitSweep /\ [][NextSweep]_vars

---------------------------------------------------------------------------
(* Properties *)

\* the key createTasks of src/unnamed/part_005 compares titles by
titleKey(title) == toLowerCase(normalizeTask(title))

\* C1: when createTasks is given one descriptor whose normalized title is that
\* of a task already active for the person, no row is inserted, the table is
\* as it was, and the reply is the one for nothing new ("Hab ich schon.")
C1_DuplicateSafeCreation ==
    [][(/\ request'.op = "createTasks"
        /\ Len(request'.args) = 1
        /\ \E r \in Active(tasks, request'.person) :
              titleKey(r.title) = titleKey(request'.args[1].title))
       => /\ tasks' = tasks
          /\ reply'.kind = "Hab ich schon."]_vars

\* C2: a completion with a target that several active tasks of the person
\* contain (and that is no shortcut) completes exactly one of them, one with
\* the shortest title, and leaves every other row as it was
C2_CompletesShortestOnly ==
    [][(/\ request'.op \in {"completeTasks", "handleComplete"}
        /\ ~EdekaRequest(request'.args[1])
        /\ ~KitchenRequest(request'.args[1])
        /\ Cardinality(Matching(tasks, request'.person, request'.args[1])) > 1)
       => \E r \in Matching(tasks, request'.person, request'.args[1]) :
             /\ \A q \in Matching(tasks, request'.person, request'.args[1]) :
                   Len(r.title) <= Len(q.title)
             /\ tasks \ tasks' = {r}
             /\ tasks' \ tasks = {Completed(r, request'.person)}]_vars

\* the table after exactly the rows hit were completed by person
AllCompleted(hit, person) == (tasks \ hit) \cup {Completed(r, person) : r \in hit}

\* C3: a completion with the target "edeka alles" completes exactly the
\* active tasks of the person whose where_text or title contains Edeka, leaves
\* every other row as it was, and names their number in the reply
C3_BulkShortcut ==
    [][(/\ request'.op = "completeTasks"
        /\ EdekaRequest(request'.args[1]))
       => /\ tasks' = AllCompleted(EdekaTasks(tasks, request'.person), request'.person)
          /\ EdekaTasks(tasks, request'.person) # {}
             => reply'.lines =
                   <<Line("Edeka erledigt",
                          Cardinality(EdekaTasks(tasks, request'.person)), <<>>)>>]_vars

\* the targets of the call handled: the one of an edit, all the identifiers
\* of a completion or a deletion
TargetsOf(call) == IF call.op = "editTask" THEN <<call.args[1]>> ELSE call.args

\* the call handled is a completeTasks (no shortcut), deleteTasks or editTask
\* with targets none of which an active title of the person contains
NoMatchRequest ==
    /\ request'.op \in {"completeTasks", "deleteTasks", "editTask"}
    /\ \A k \in DOMAIN TargetsOf(request') :
          /\ request'.op = "completeTasks"
             => /\ ~EdekaRequest(TargetsOf(request')[k])
                /\ ~KitchenRequest(TargetsOf(request')[k])
          /\ Matching(tasks, request'.person, TargetsOf(request')[k]) = {}

DidYouMean == "nicht gefunden. Meintest du: "

\* the active tasks of the person whose title begins with the first three
\* characters of target
SharingPrefix(target, person) ==
    {r \in Active(tasks, person) : StartsWith(r.title, substring(target, 3))}

\* C4, as the specification states it: when no active title of the person
\* contains the target, the table is unchanged, and the reply suggests a task
\* exactly when an active title of the person begins with the first three
\* characters of the target
C4_SuggestsOnSharedPrefix ==
    [][NoMatchRequest
       => /\ tasks' = tasks
          /\ reply'.kind = DidYouMean
             <=> SharingPrefix(request'.args[1], request'.person) # {}]_vars

\* the titles of the active tasks of the person that contain the first three
\* characters of target
SimilarTitles(target, person) ==
    {r.title : r \in Matching(tasks, person, substring(target, 3))}

\* the reply when nothing matched: a suggestion of one of the titles, or
\* nothing found when there is none
SuggestsOneOf(titles) ==
    IF titles # {}
    THEN reply'.kind = DidYouMean /\ reply'.text \in titles
    ELSE reply'.kind \in {"Nichts gefunden.", "Aufgabe nicht gefunden."}

\* C4: when no active title of the person contains the target, the table is
\* unchanged; the reply suggests a task exactly when an active title of the
\* person contains the first three characters of the target anywhere, letters
\* compared without case, and the task suggested is such a task; otherwise the
\* reply says that nothing was found
C4_DisambiguationNonMutating ==
    [][NoMatchRequest
       => /\ tasks' = tasks
          /\ SuggestsOneOf(SimilarTitles(request'.args[1], request'.person))]_vars

\* a task is suggested whose title holds the first three characters of the
\* target, but not at its beginning
C4_Witness ==
    /\ reply.kind = DidYouMean
    /\ reply.text = EdekaMilch
    /\ request.args[1] = <<"M","i","l","z">>
    /\ \E r \in tasks : r.title = EdekaMilch /\ r.completed = 0

\* the ids of the rows
Ids(rows) == {r.id : r \in rows}

\* the call handled is a deletion with a target that an active title of the
\* person contains
DeleteRequest ==
    /\ request'.op \in {"deleteTasks", "handleRemove"}
    /\ \E k \in DOMAIN request'.args :
          Matching(tasks, request'.person, request'.args[k]) # {}

\* C5: a deletion with a target that active tasks of the person contain takes
\* such a row out of the table, takes out no other row and changes none; an
\* id that was given out and is not in the table is never in the table again,
\* so the row is never completed; and the tasks a reply of listTasks,
\* handleList or suggestTasks names are rows of the table that are active
C5_DeleteRemovesRow ==
    [][/\ DeleteRequest
          => /\ tasks' \subseteq tasks
             /\ tasks' # tasks
             /\ \A r \in tasks \ tasks' :
                   \E k \in DOMAIN request'.args :
                      r \in Matching(tasks, request'.person, request'.args[k])
       /\ (1..(nextId - 1)) \ Ids(tasks) \subseteq (1..(nextId' - 1)) \ Ids(tasks')
       /\ request'.op \in {"listTasks", "handleList", "suggestTasks"}
          => \A k \in DOMAIN reply'.lines :
                \E r \in tasks' : /\ r.id = reply'.lines[k].n
                                  /\ r.title = reply'.lines[k].text
                                  /\ r.completed = 0]_vars

\* a list names the one task left after two were created and one of them
\* was deleted
C5_Witness ==
    /\ request.op \in {"listTasks", "handleList"}
    /\ Len(reply.lines) = 1
    /\ nextId = 3
    /\ Cardinality(tasks) = 1
    /\ \A r \in tasks : r.completed = 0

\* q is the row r after editTask changed it as updates say: the title is
\* newTitle, as given or normalized, the place is newWhere, and so on for the
\* other fields editTask knows
AsUpdated(updates, r, q) ==
    /\ DOMAIN q = DOMAIN r
    /\ \A c \in DOMAIN r \ {"title", "when_text", "where_text", "category", "importance"} :
          q[c] = r[c]
    /\ q.title \in IF Has(updates, "newTitle") /\ updates.newTitle # <<>>
                   THEN {updates.newTitle, normalizeTask(updates.newTitle)}
                   ELSE {r.title}
    /\ q.when_text = IF Has(updates, "newWhen") THEN OrNull(updates.newWhen) ELSE r.when_text
    /\ q.where_text = IF Has(updates, "newWhere") THEN OrNull(updates.newWhere)
                      ELSE r.where_text
    /\ q.category = IF Has(updates, "newCategory") /\ updates.newCategory # ""
                    THEN updates.newCategory ELSE r.category
    /\ q.importance = IF Has(updates, "newImportance") /\ updates.newImportance # ""
                      THEN updates.newImportance ELSE r.importance

\* q is the row r after handleEdit changed it as details say: the columns
\* that may be edited are as in details
AsDetailed(details, r, q) ==
    q = [c \in DOMAIN r |->
            IF c \in DOMAIN details
               /\ c \in {"title", "who", "when_text", "where_text", "importance", "category"}
            THEN details[c] ELSE r[c]]

\* q is r after the edit the call handled asks for
AsRequested(r, q) ==
    IF request'.op = "handleEdit"
    THEN AsDetailed(request'.args[2], r, q)
    ELSE AsUpdated(request'.args[2], r, q)

\* the call handled is an edit with a target that an active title of the
\* person contains
EditRequest ==
    /\ request'.op \in {"editTask", "handleEdit"}
    /\ Matching(tasks, request'.person, request'.args[1]) # {}

\* one of the tasks matched is changed as the call asks for, no other row is
EditedAsRequested ==
    \E r \in Matching(tasks, request'.person, request'.args[1]) :
       \E q \in (tasks' \ tasks) \cup {r} :
          /\ tasks' = (tasks \ {r}) \cup {q}
          /\ AsRequested(r, q)

\* C6, as the specification states it: an edit of a task matched changes the
\* fields of it that the call names and that can be edited, and nothing else
C6_EditChangesGivenFields ==
    [][EditRequest => EditedAsRequested]_vars

\* the edit is refused: the table is unchanged, the reply says that the edit
\* failed, and a task matched would share its new title with another task of
\* the same person that is active
EditRefused ==
    /\ tasks' = tasks
    /\ reply'.kind = "Fehler beim Bearbeiten."
    /\ request'.op = "editTask"
    /\ Has(request'.args[2], "newTitle")
    /\ \E r \in Matching(tasks, request'.person, request'.args[1]) :
       \E t \in Active(tasks, request'.person) :
          /\ t.id # r.id
          /\ t.title \in {request'.args[2].newTitle, normalizeTask(request'.args[2].newTitle)}

\* C6: an edit of a task matched changes the fields of it that the call names
\* and that can be edited, and nothing else in the table; or, when the new
\* title is that of another active task of the person, it changes nothing at
\* all and replies that the edit failed
C6_EditFrame ==
    [][EditRequest => EditedAsRequested \/ EditRefused]_vars

\* an edit of the title of the one task that contains the target was refused
C6_Witness ==
    /\ request.op = "editTask"
    /\ request.args[1] = <<"e","d","e","k","a">>
    /\ Has(request.args[2], "newTitle")
    /\ reply.kind = "Fehler beim Bearbeiten."
    /\ Cardinality(Active(tasks, request.person)) = 2

\* the descriptors of batch that collide with nothing: their key is that of
\* no active task of the person and of no descriptor before them in batch
Fresh(batch, person) ==
    {k \in 1..Len(batch) :
        /\ \A r \in Active(tasks, person) : titleKey(r.title) # titleKey(batch[k].title)
        /\ \A j \in 1..(k - 1) : titleKey(batch[j].title) # titleKey(batch[k].title)}

\* the rows written for the descriptors ks of batch, and no other
Inserted(batch, ks) ==
    /\ tasks \subseteq tasks'
    /\ Cardinality(tasks' \ tasks) = Cardinality(ks)
    /\ {titleKey(r.title) : r \in tasks' \ tasks} = {titleKey(batch[k].title) : k \in ks}

\* the reply names count rows: nothing new, one task, or their number
CountReplied(count) ==
    /\ reply'.n = count
    /\ reply'.kind = "Hab ich schon." <=> count = 0
    /\ reply'.kind = "Gemerkt: " <=> count = 1

\* C7: createTasks and processTasks with a batch of which some descriptors
\* collide with an active task of the person or with an earlier descriptor of
\* the batch write a row for each of the others and for none of the colliding
\* ones, and the reply of createTasks names the number of rows written
C7_PartialSuccessIngestion ==
    [][request'.op \in {"createTasks", "processTasks"}
       => /\ Inserted(request'.args, Fresh(request'.args, request'.person))
          /\ request'.op = "createTasks"
             => CountReplied(Cardinality(Fresh(request'.args, request'.person)))]_vars

\* the run's archive/delete step: the write resolved
Performs(run) == run \in sweeps /\ monthlyCleanupWritten(run)

\* the days on which a run started that has archived and deleted tasks
Performed == {f \in DOMAIN archive : archive[f] # {}}

\* C8: of two runs of monthlyCleanup that start less than the retention
\* window apart at most one performs the archive/delete step and advances
\* lastCleanup: when a run that started less than the window apart from a
\* run that performed the step comes to the step itself, it changes neither
\* the table nor the archive nor lastCleanup; and a run that starts within
\* the window after lastCleanup ends without any change
C8_SweepGating ==
    [][/\ \A run \in sweeps :
             (/\ Performs(run)
              /\ \E f \in Performed : run.now - f < Retention /\ f - run.now < Retention)
             => UNCHANGED <<tasks, archive, lastCleanup>>
       /\ \A p \in Processes :
             (now - lastCleanup < Retention /\ monthlyCleanup(p)) => UNCHANGED vars]_vars

\* two runs that started less than the window apart are suspended at the
\* write at the same time
C8_Witness ==
    \E a, b \in sweeps : a # b /\ a.now - b.now < Retention /\ b.now - a.now < Retention

\* C9: a row leaves the table in a sweep only in the step after the write of
\* the file resolved, and the file written holds the row; when the write
\* fails, no row is deleted and lastCleanup stays as it is
C9_ArchiveThenDelete ==
    [][/\ \A r \in {t \in tasks : t.id \notin Ids(tasks')} :
             \E run \in sweeps :
                /\ sweeps' = sweeps \ {run}
                /\ run.now \in DOMAIN archive'
                /\ r \in archive'[run.now]
                /\ r \in run.oldTasks
       /\ \A run \in sweeps :
             monthlyCleanupFailed(run) => tasks' = tasks /\ lastCleanup' = lastCleanup]_vars

\* a sweep has archived and deleted a task while another task, completed
\* later, stays in the table
C9_Witness ==
    /\ \E f \in DOMAIN archive : archive[f] # {} /\ archive[f] \cap tasks = {}
    /\ \E r \in tasks : r.completed = 1
    /\ lastCleanup > 0

\* C10: every row of the table is active, with completedAt and completedBy
\* NULL, or completed, with completedAt set
C10_TaskStateInvariant ==
    \A r \in tasks :
       \/ r.completed = 0 /\ r.completedAt = NoTime /\ r.completedBy = Nobody
       \/ r.completed = 1 /\ r.completedAt # NoTime

\* handleEdit was asked to set the column completed of a task it found, and
\* a completed task and an active one are in the table
C10_Witness ==
    /\ request.op = "handleEdit"
    /\ reply.kind \in {"Okay, I've updated the task.", "None of those are things I can change."}
    /\ "completed" \in DOMAIN request.args[2]
    /\ \E r \in tasks : r.completed = 1
    /\ \E r \in tasks : r.completed = 0

\* the call handled is a completion, no bulk shortcut, with a first target
\* that an active title of the person contains
CompleteRequest ==
    /\ request'.op \in {"completeTasks", "handleComplete"}
    /\ ~EdekaRequest(request'.args[1]) /\ ~KitchenRequest(request'.args[1])
    /\ Matching(tasks, request'.person, request'.args[1]) # {}

\* C11: a completion with a target that an active task of the person matches
\* ends with a task it matched completed: completed = 1, completedAt set and
\* completedBy the person, whatever rows the table holds
C11_CompletionTakesEffect ==
    [][CompleteRequest
       => \E r \in Matching(tasks, request'.person, request'.args[1]) :
             \E q \in tasks' : /\ q.id = r.id
                               /\ q.completed = 1
                               /\ q.completedAt # NoTime
                               /\ q.completedBy = request'.person]_vars

\* the names of the fields that the edit handled knows
RecognizedFields ==
    IF request'.op = "handleEdit"
    THEN {"title", "who", "when_text", "where_text", "importance", "category"}
    ELSE {"newTitle", "newWhen", "newWhere", "newCategory", "newImportance"}

\* the reply of an edit that found nothing it can change
NothingToChange ==
    reply'.kind \in {"Nichts zu ändern.", "None of those are things I can change."}

\* C18: an edit of a task matched whose details hold no field under a name
\* the edit knows replies that there is nothing to change and leaves the
\* task matched and every other row of the table as they are
C18_NothingToChange ==
    [][(EditRequest /\ DOMAIN request'.args[2] \cap RecognizedFields = {})
       => tasks' = tasks /\ NothingToChange]_vars

\* editTask was asked to set who, a field it does not know, on a task that
\* it matched, and answered that there is nothing to change
C18_Witness ==
    /\ request.op = "editTask"
    /\ DOMAIN request.args[2] = {"who"}
    /\ Matching(tasks, request.person, request.args[1]) # {}
    /\ reply.kind = "Nichts zu ändern."

\* C19: clearAllTasks of a person leaves no active task of the person in the
\* table, leaves the rows of everybody else as they are, and replies with the
\* number of tasks it completed, whatever rows the table holds
C19_ClearAllPerOwner ==
    [][request'.op = "clearAllTasks"
       => /\ Active(tasks', request'.person) = {}
          /\ {r \in tasks' : r.who # request'.person}
                = {r \in tasks : r.who # request'.person}
          /\ reply'.kind = " Aufgaben gelöscht."
          /\ reply'.n = Cardinality(Active(tasks, request'.person))]_vars

\* the ids of the tasks that the reply names, and how many lines name them
Named == {reply'.lines[k].n : k \in DOMAIN reply'.lines}

\* the active tasks in the scope of the list handled
InScope ==
    {r \in tasks : /\ r.completed = 0
                   /\ request'.args[1] = "personal" => r.who = request'.person}

\* the reply that says there is nothing to do
NothingToDo ==
    reply'.kind \in {"Alles erledigt!", "You have nothing to do.", "There are no tasks.",
                     "Keine Aufgaben vorhanden.", "Nichts bei zu erledigen."}

\* C20: listTasks, handleList and suggestTasks leave the table as it is; a
\* list names each active task of its scope once, the person's for personal
\* and everybody's for all, and no other task; a suggestion names active
\* tasks of the person only; and the reply says that there is nothing to do
\* exactly when no task is named
C20_ReadOnlyScopeExact ==
    [][request'.op \in {"listTasks", "handleList", "suggestTasks"}
       => /\ UNCHANGED <<tasks, nextId>>
          /\ request'.op \in {"listTasks", "handleList"}
                => Named = Ids(InScope) /\ Len(reply'.lines) = Cardinality(InScope)
          /\ request'.op = "suggestTasks" => Named \subseteq Ids(Active(tasks, request'.person))
          /\ NothingToDo <=> Named = {}]_vars

\* a personal list named one task while the table holds another row, of
\* somebody else or completed
C20_Witness ==
    /\ request.op = "listTasks"
    /\ request.args[1] = "personal"
    /\ Len(reply.lines) = 1
    /\ Cardinality(tasks) = 2

---------------------------------------------------------------------------
(* The handlers called with a target that is empty or a filler word only *)

\* the targets: none, the word done, and a word of a title
PromptTargets == { <<>>, <<"d","o","n","e">>, <<"m","i","l","c","h">> }

NextPrompt ==
    \/ \E batch \in Batches, person \in Persons :
          createTasks(batch, person) /\ Handling("createTasks", person, batch)
    \/ \E batch \in Batches, person \in Persons :
          createTasksV1(batch, person) /\ Handling("createTasks", person, batch)
    \/ \E newTasks \in NewTasks, person \in Persons :
          processTasks(newTasks, person) /\ Handling("processTasks", person, newTasks)
    \/ \E target \in PromptTargets, person \in Persons, order \in Orders :
          completeTasks(<<target>>, person, order)
          /\ Handling("completeTasks", person, <<target>>)
    \/ \E target \in PromptTargets, person \in Persons, order \in Orders :
          completeTasksV1(<<target>>, person, order)
          /\ Handling("completeTasks", person, <<target>>)
    \/ \E target \in PromptTargets, person \in Persons, order \in Orders :
          deleteTasks(<<target>>, person, order)
          /\ Handling("deleteTasks", person, <<target>>)
    \/ \E target \in PromptTargets, updates \in Updates, person \in Persons, order \in Orders :
          editTask(target, updates, person, order)
          /\ Handling("editTask", person, <<target, updates>>)
    \/ \E target \in PromptTargets, updates \in Updates, person \in Persons, order \in Orders :
          editTaskV1(target, updates, person, order)
          /\ Handling("editTask", person, <<target, updates>>)
    \/ \E target \in PromptTargets, details \in Details, person \in Persons, order \in Orders :
          handleEdit(target, details, person, order)
          /\ Handling("handleEdit", person, <<target, details>>)
    \/ \E target \in PromptTargets, person \in Persons, order \in Orders :
          handleComplete(target, person, order) /\ Handling("handleComplete", person, <<target>>)
    \/ \E target \in PromptTargets, person \in Persons, order \in Orders :
          handleRemove(target, person, order) /\ Handling("handleRemove", person, <<target>>)

PromptSpec == Init /\ [][NextPrompt]_vars

\* the call handled is a completion, a deletion or an edit whose target is
\* empty, or a handleComplete whose target is empty without done and bought
MissingTarget ==
    /\ request'.op \in {"completeTasks", "deleteTasks", "editTask",
                        "handleComplete", "handleRemove", "handleEdit"}
    /\ \/ request'.args[1] = <<>>
       \/ request'.op = "handleComplete" /\ cleaned(request'.args[1]) = <<>>

\* the reply asks what is meant
Prompts ==
    reply'.kind \in {"What exactly is done?", "What exactly should I remove?",
                     "What do you want to change"}

\* the reply reports no task completed, deleted or changed: it asks what is
\* meant or says that nothing was found
NoSuccessReplied ==
    \/ Prompts
    \/ reply'.kind \in {"Nichts gefunden.", "Aufgabe nicht gefunden.", " nicht gefunden."}

\* C17: a completion, a deletion or an edit with an empty target, or with a
\* target that is empty once done and bought are taken out, changes no task
\* and replies with a question for the target (a reply that nothing was
\* found is let pass here): the empty text is matched against no title
C17_MissingTargetPrompt ==
    [][MissingTarget => tasks' = tasks /\ NoSuccessReplied]_vars

---------------------------------------------------------------------------
(* The operations on several rows when the store fails at one of their    *)
(* statements (an I/O error that the statement throws) or the process is   *)
(* killed there                                                            *)

\* how an operation ends at the statement that does not run: the statement
\* throws, or the process stops
Outcomes == {"throws", "killed"}

\* what the chat receives then: the message of the catch block, or nothing
StoppedMsg(op, how, kind) ==
    IF how = "throws" THEN Msg(op, kind, 0, <<>>, <<>>) ELSE Msg(op, "", 0, <<>>, <<>>)

\* createTasks of src/unnamed/part_005 when INSERT number k does not run: the
\* statements before it have run, each on its own
createTasksStopped(batch, person, k, how) ==
    /\ deployment = "handlers"
    /\ \E uniqueTasks \in
            {uniqueTasksOf(batch, {},
                           {toLowerCase(t.title) :
                               t \in {q \in tasks : q.who = person /\ q.completed = 0}})} :
          /\ k \in 1..Len(uniqueTasks)
          /\ \E done \in {insertOrIgnore(tasks, nextId, SubSeq(uniqueTasks, 1, k - 1), person)} :
                /\ done.nextId <= MaxRows
                /\ tasks' = done.rows
                /\ nextId' = done.nextId
    /\ reply' = StoppedMsg("createTasks", how, "Fehler beim Speichern.")
    /\ UNCHANGED <<deployment, now, lastCleanup, archive, sweeps>>

\* processTasks when INSERT number k does not run: the transaction of
\* insertMany is rolled back, and the catch block logs the error only
processTasksStopped(newTasks, person, k, how) ==
    /\ deployment = "index"
    /\ k \in 1..Len(newTasks)
    /\ insertMany(tasks, nextId, newTasks, person).nextId - 1 <= MaxRows
    /\ reply' = Msg("processTasks", "", 0, <<>>, <<>>)
    /\ UNCHANGED <<deployment, tasks, nextId, now, lastCleanup, archive, sweeps>>

\* the Edeka shortcut of completeTasks in src/unnamed/part_005 when UPDATE
\* number k does not run: the rows before it are completed
completeTasksStopped(taskIdentifiers, person, order, k, how) ==
    /\ deployment = "handlers"
    /\ EdekaRequest(taskIdentifiers[1])
    /\ \E found \in {InOrder(EdekaTasks(tasks, person), order)} :
          /\ k \in 1..Len(found)
          /\ \E done \in {completeInTurn(StartCompleting, SubSeq(found, 1, k - 1), person)} :
                /\ ~done.threw
                /\ tasks' = done.rows
    /\ reply' = StoppedMsg("completeTasks", how, "Fehler beim Erledigen.")
    /\ UNCHANGED <<deployment, nextId, now, lastCleanup, archive, sweeps>>

\* clearAllTasks when its one UPDATE does not run
clearAllTasksStopped(person, how) ==
    /\ deployment \in {"handlers", "handlers_v1"}
    /\ reply' = StoppedMsg("clearAllTasks", how, "Fehler beim Löschen.")
    /\ UNCHANGED <<deployment, tasks, nextId, now, lastCleanup, archive, sweeps>>

\* the statement of an operation that does not run
Statements == 1..MaxBatch

\* a call that asks for the Edeka shortcut
EdekaAlles == <<"e","d","e","k","a"," ","a","l","l","e","s">>

NextStop ==
    \/ \E batch \in Batches, person \in Persons :
          createTasks(batch, person) /\ Handling("createTasks", person, batch)
    \/ \E batch \in Batches, person \in Persons :
          createTasksV1(batch, person) /\ Handling("createTasks", person, batch)
    \/ \E newTasks \in NewTasks, person \in Persons :
          processTasks(newTasks, person) /\ Handling("processTasks", person, newTasks)
    \/ \E ids \in Identifiers, person \in Persons, order \in Orders :
          completeTasks(ids, person, order) /\ Handling("completeTasks", person, ids)
    \/ \E person \in Persons :
          clearAllTasks(person) /\ Handling("clearAllTasks", person, <<>>)
    \/ \E batch \in Batches, person \in Persons, k \in Statements, how \in Outcomes :
          createTasksStopped(batch, person, k, how)
          /\ Handling("createTasksStopped", person, <<batch, k, how>>)
    \/ \E newTasks \in NewTasks, person \in Persons, k \in Statements, how \in Outcomes :
          processTasksStopped(newTasks, person, k, how)
          /\ Handling("processTasksStopped", person, <<newTasks, k, how>>)
    \/ \E person \in Persons, order \in Orders, k \in Statements, how \in Outcomes :
          completeTasksStopped(<<EdekaAlles>>, person, order, k, how)
          /\ Handling("completeTasksStopped", person, <<<<EdekaAlles>>, k, how>>)
    \/ \E person \in Persons, how \in Outcomes :
          clearAllTasksStopped(person, how)
          /\ Handling("clearAllTasksStopped", person, <<<<>>, 1, how>>)

StopSpec == Init /\ [][NextStop]_vars

\* the call handled is an operation on several rows in which a statement
\* did not run
StoppedRequest ==
    request'.op \in {"createTasksStopped", "processTasksStopped",
                     "completeTasksStopped", "clearAllTasksStopped"}

\* C13: when the store fails at a statement of an operation on several rows,
\* or the process stops there, the table is as it was before the operation:
\* no row written or completed by an earlier statement of it is left
C13_NoHalfUpdatedStore ==
    [][StoppedRequest => tasks' = tasks]_vars

---------------------------------------------------------------------------
(* The handler of a chat message, bot.on('message', async (msg) => ...):   *)
(* src/unnamed/part_002 and src/grandma-bot.js before the handlers object, *)
(* src/unnamed/part_001 in the single-file bot.  A handler runs up to the  *)
(* await of the language model and is resumed with what the model returns; *)
(* of the tool calls and operations of one answer the first is modelled.   *)

MaxMessages == 2

\* msg.text: a text with the word done, and one with no word the bot knows
Texts == { <<"d","o","n","e">>, <<"h","i">> }

\* no handler is called: the store is left alone
NoCall == UNCHANGED <<deployment, tasks, nextId, now, lastCleanup, archive, sweeps>>

\* the message of a catch block of a handler of the handlers object
Fehler(msg) ==
    msg.kind \in {"Fehler beim Speichern.", "Fehler beim Erledigen.", "Fehler beim Löschen.",
                  "Fehler beim Bearbeiten."}

\* the handler of message h runs on from its await to its end
Resume(h, result, sent, called, error) ==
    /\ h \in awaiting
    /\ awaiting' = awaiting \ {h}
    /\ received' = received
    /\ ended' = Ended(h.id, h.user, h.text, result, sent, called, error, FALSE)

\* const history = conversations.get(userId); history.push({ role, content });
\* if (history.length > 10) history.shift()
remember(history, role, content) ==
    With(Append(history, [role |-> role, content |-> content]), LAMBDA pushed :
        IF Len(pushed) > 10 THEN Tail(pushed) ELSE pushed)

\* GrandmaMemory.remember, its first half: shortTermMemory.push({ person, said });
\* if (shortTermMemory.length > 20) shortTermMemory.shift()
rememberShortTerm(memory, person, said) ==
    With(Append(memory, [person |-> person, said |-> said]), LAMBDA pushed :
        IF Len(pushed) > 20 THEN Tail(pushed) ELSE pushed)

\* the rows in the opposite order
reverse(rows) == [k \in 1..Len(rows) |-> rows[Len(rows) + 1 - k]]

\* GrandmaMemory.hydrate: SELECT person, said ... ORDER BY timestamp DESC LIMIT 20,
\* reversed.  The rows carry strictly growing timestamps.
hydrate(history) ==
    With(reverse(history), LAMBDA newestFirst :
        reverse(SubSeq(newestFirst, 1, IF Len(newestFirst) < 20 THEN Len(newestFirst) ELSE 20)))

\* the handler remembers nothing more
Remembered == UNCHANGED <<conversations, shortTermMemory, conversation_history>>

\* a text message of a person arrives.  The single-file bot first writes it
\* to conversation_history, outside its try block: when that INSERT throws,
\* the handler ends there and the rejected promise is logged by the listener
\* of unhandledRejection.  The other bots remember it in a Map.
onMessage(user, text, stored) ==
    /\ received < MaxMessages
    /\ received' = received + 1
    /\ deployment # "index" => stored
    /\ IF stored
       THEN /\ awaiting' = awaiting \cup {[id |-> received + 1, user |-> user, text |-> text]}
            /\ ended' = ended
       ELSE /\ awaiting' = awaiting
            /\ ended' = Ended(received + 1, user, text, "", 0, 0, "store", TRUE)
    /\ IF deployment = "index"
       THEN /\ shortTermMemory' = rememberShortTerm(shortTermMemory, user, text)
            /\ conversation_history' =
                  IF stored THEN Append(conversation_history, [person |-> user, said |-> text])
                  ELSE conversation_history
            /\ conversations' = conversations
       ELSE /\ conversations' = [conversations EXCEPT ![user] = remember(@, "user", text)]
            /\ UNCHANGED <<shortTermMemory, conversation_history>>
    /\ UNCHANGED <<deployment, tasks, nextId, now, lastCleanup, archive, sweeps, reply, request>>

\* message.content and no tool_calls: the content is remembered and sent
onContent(h) ==
    /\ deployment \in {"handlers", "handlers_v1"}
    /\ Resume(h, "content", 1, 0, "")
    /\ conversations' =
          [conversations EXCEPT ![h.user] = remember(@, "assistant", <<"o","k">>)]
    /\ UNCHANGED <<shortTermMemory, conversation_history>>
    /\ reply' = Msg("message", "content", 0, <<>>, <<>>)
    /\ request' = Request("", h.user, <<>>)
    /\ NoCall

\* a tool call that names a handler, createTasks or completeTasks: functionName
\* and functionArgs say which handler is called with what
onToolCall(h, functionName, functionArgs, order) ==
    /\ \/ /\ functionName = "createTasks"
          /\ \/ createTasks(functionArgs, h.user)
             \/ createTasksV1(functionArgs, h.user)
       \/ /\ functionName = "completeTasks"
          /\ \/ completeTasks(functionArgs, h.user, order)
             \/ completeTasksV1(functionArgs, h.user, order)
    /\ request' = Request(functionName, h.user, functionArgs)
    /\ Resume(h, functionName, 1, 1, IF Fehler(reply') THEN "store" ELSE "")
    /\ Remembered

\* tool_calls with a name that handlers does not hold (the tool removeTasks),
\* or an answer with neither tool_calls nor content: nothing is sent
onNoHandler(h, result) ==
    /\ deployment \in {"handlers", "handlers_v1"}
    /\ result \in {"removeTasks", "nothing"}
    /\ Resume(h, result, 0, 0, "")
    /\ Remembered
    /\ request' = Request("", h.user, <<>>)
    /\ reply' = reply
    /\ NoCall

\* the call of the language model rejects, or JSON.parse of the arguments of
\* the tool call throws: the catch block of the message handler
onError(h, result) ==
    /\ deployment \in {"handlers", "handlers_v1"}
    /\ result \in {"rejected", "arguments"}
    /\ Resume(h, result, 1, 0, "interpretation")
    /\ Remembered
    /\ request' = Request("", h.user, <<>>)
    /\ reply' = Msg("message", "Fehler. Versuch's nochmal.", 0, <<>>, <<>>)
    /\ NoCall

\* the single-file bot: response.message is sent when there is one
SentFor(message) == IF message THEN 1 ELSE 0

\* a response with no tasks and no operations
onResponse(h, message) ==
    /\ deployment = "index"
    /\ Resume(h, IF message THEN "message" ELSE "nothing", SentFor(message), 0, "")
    /\ Remembered
    /\ request' = Request("", h.user, <<>>)
    /\ reply' = IF message THEN Msg("message", "content", 0, <<>>, <<>>) ELSE reply
    /\ NoCall

\* a response with tasks: processTasks, whose transaction commits or, when an
\* INSERT throws, is rolled back and logged
onResponseTasks(h, message, newTasks, committed) ==
    /\ IF committed
       THEN processTasks(newTasks, h.user)
       ELSE processTasksStopped(newTasks, h.user, 1, "throws")
    /\ request' = Request("processTasks", h.user, newTasks)
    /\ Resume(h, "tasks", SentFor(message), 1, IF committed THEN "" ELSE "store")
    /\ Remembered

\* a response with an operation: complete, or a type that processOperations
\* does not know
onResponseOperation(h, message, type, target, order) ==
    /\ type \in {"complete", "assign"}
    /\ IF type = "complete"
       THEN /\ handleComplete(target, h.user, order)
            /\ request' = Request("handleComplete", h.user, <<target>>)
       ELSE /\ deployment = "index"
            /\ reply' = Msg("processOperations", "I don't know how to do that.", 0, <<>>, <<>>)
            /\ request' = Request("", h.user, <<>>)
            /\ NoCall
    /\ Resume(h, type, SentFor(message) + 1, IF type = "complete" THEN 1 ELSE 0, "")
    /\ Remembered

\* the call of the language model rejects or JSON.parse of its answer throws:
\* the catch block of processWithGrandmaWisdom sends a message and returns a
\* response with nothing in it
onWisdomError(h) ==
    /\ deployment = "index"
    /\ Resume(h, "rejected", 1, 0, "interpretation")
    /\ Remembered
    /\ request' = Request("", h.user, <<>>)
    /\ reply' = Msg("processWithGrandmaWisdom", "That's a lot to remember.", 0, <<>>, <<>>)
    /\ NoCall

NextChat ==
    \/ \E user \in Persons, text \in Texts, stored \in BOOLEAN : onMessage(user, text, stored)
    \/ \E h \in awaiting : onContent(h)
    \/ \E h \in awaiting, batch \in Batches : onToolCall(h, "createTasks", batch, <<>>)
    \/ \E h \in awaiting, ids \in Identifiers, order \in Orders :
          onToolCall(h, "completeTasks", ids, order)
    \/ \E h \in awaiting, result \in {"removeTasks", "nothing"} : onNoHandler(h, result)
    \/ \E h \in awaiting, result \in {"rejected", "arguments"} : onError(h, result)
    \/ \E h \in awaiting, message \in BOOLEAN : onResponse(h, message)
    \/ \E h \in awaiting, message \in BOOLEAN, newTasks \in NewTasks, committed \in BOOLEAN :
          onResponseTasks(h, message, newTasks, committed)
    \/ \E h \in awaiting, message \in BOOLEAN, type \in {"complete", "assign"},
          target \in Targets, order \in Orders :
          onResponseOperation(h, message, type, target, order)
    \/ \E h \in awaiting : onWisdomError(h)

ChatSpec == Init /\ [][NextChat]_vars

\* C12: the handler of a text message sends at least one message to the chat
\* before it ends, whatever the language model returned for it: content
\* only, tasks only, a tool or operation that is known or not, nothing, or a
\* failure (the store failing is left aside here)
C12_NoSilentFailure ==
    (ended.id # 0 /\ ended.error # "store") => ended.sent >= 1

\* C14: a store error met by a message handler, in a change of the tasks or
\* in the recording of the conversation, does not leave the handler
\* uncaught, and the handler sends a message that says that the operation
\* failed
C14_StoreErrorsTerminal ==
    ended.error = "store"
    => /\ ~ended.escaped
       /\ ended.sent >= 1
       /\ Fehler(reply) \/ reply.kind = "Something went wrong. Try again."

\* C15: the handlers of two messages of one person never are both suspended
\* at the await of the language model: the handler of the earlier message
\* has ended before the handler of the later one starts
C15_SerialPerConversation ==
    \A a, b \in awaiting : a.user = b.user => a = b

\* the words for which an operation is made up when the language model fails
FallbackKeywords ==
    { <<"d","e","l","e","t","e"," ","a","l","l">>,
      <<"c","l","e","a","r"," ","e","v","e","r","y","t","h","i","n","g">>,
      <<"d","o","n","e">>, <<"b","o","u","g","h","t">>,
      <<"l","i","s","t">>, <<"w","h","a","t">> }

HasKeyword(text) == \E w \in FallbackKeywords : includes(toLowerCase(text), w)

\* C16: when the call of the language model fails or its answer cannot be
\* parsed, the message handler ends caught; for a text with a fallback
\* keyword it calls exactly one operation; for any other text it calls none,
\* leaves the table as it is and sends a message
C16_InterpretationFallback ==
    [][(ended' # ended /\ ended'.error = "interpretation")
       => /\ ~ended'.escaped
          /\ IF HasKeyword(ended'.text)
             THEN ended'.called = 1
             ELSE tasks' = tasks /\ ended'.called = 0 /\ ended'.sent >= 1]_vars

---------------------------------------------------------------------------
(* The memory of the conversation across restarts of the process *)

\* n turns remembered before: a question of a person and an answer in turn
turnsBefore(n) ==
    [k \in 1..n |-> IF k % 2 = 1 THEN [role |-> "user", content |-> <<"h","i">>]
                    ELSE [role |-> "assistant", content |-> <<"o","k">>]]

\* n rows of conversation_history written before, of the two persons in turn
rowsBefore(n) ==
    [k \in 1..n |-> [person |-> IF k % 2 = 1 THEN "Anna" ELSE "Ben", said |-> <<"h","i">>]]

\* the bot has talked before: the Map holds no turn or one turn less than it
\* keeps; the single-file bot has started on a table of no row or of one row
\* less than it loads, and has loaded it
InitMemory ==
    /\ deployment \in {"handlers", "handlers_v1", "index"}
    /\ tasks = {}
    /\ nextId = 1
    /\ now = 0
    /\ lastCleanup = 0
    /\ archive = <<>>
    /\ sweeps = {}
    /\ reply = NoMsg
    /\ request = Request("", Nobody, <<>>)
    /\ received = 0
    /\ awaiting = {}
    /\ ended = Ended(0, Nobody, <<>>, "", 0, 0, "", FALSE)
    /\ \E n \in {0, 9} :
          conversations = [userId \in Persons |->
                              IF deployment = "index" THEN <<>> ELSE turnsBefore(n)]
    /\ \E n \in {0, 19} :
          conversation_history = IF deployment = "index" THEN rowsBefore(n) ELSE <<>>
    /\ shortTermMemory = hydrate(conversation_history)

\* the process stops and starts again: the handlers that were suspended are
\* gone, the Map is new and empty, grandma.hydrate() loads shortTermMemory
startup ==
    /\ awaiting' = {}
    /\ conversations' = [userId \in Persons |-> <<>>]
    /\ shortTermMemory' = IF deployment = "index" THEN hydrate(conversation_history) ELSE <<>>
    /\ request' = Request("startup", Nobody, <<>>)
    /\ UNCHANGED <<deployment, tasks, nextId, now, lastCleanup, archive, sweeps, reply,
                   received, ended, conversation_history>>

NextMemory ==
    \/ NextChat
    \/ startup

MemorySpec == InitMemory /\ [][NextMemory]_vars

\* the history that the bot keeps for a person, before and after the step
BufferOf(u) == IF deployment = "index" THEN shortTermMemory ELSE conversations[u]
BufferAfter(u) == IF deployment = "index" THEN shortTermMemory' ELSE conversations'[u]

\* the number of turns a history keeps
Turns == IF deployment = "index" THEN 20 ELSE 10

\* the step is one of a message handler of the person
Spoke(u) ==
    \/ \E h \in awaiting' \ awaiting : h.user = u
    \/ ended' # ended /\ ended'.user = u

\* new is old with one turn appended, the oldest turn dropped when old is full
RingAppended(old, new) ==
    /\ new # <<>>
    /\ new = Append(IF Len(old) = Turns THEN Tail(old) ELSE old, new[Len(new)])

\* the ring discipline of every buffer the bot keeps, whoever it serves
RingOfEachBuffer ==
    [][request'.op # "startup"
       => \A u \in Persons :
             /\ Len(BufferAfter(u)) <= Turns
             /\ BufferAfter(u) # BufferOf(u) => RingAppended(BufferOf(u), BufferAfter(u))]_vars

\* C21: the history of each person holds at most N turns (10 in the Map of
\* grandma-bot.js, 20 in the single-file bot) and changes only by a turn of
\* the conversation of that person appended to it, the oldest turn dropped
\* when it is full
C21_BoundedRingBuffer ==
    [][request'.op # "startup"
       => \A u \in Persons :
             /\ Len(BufferAfter(u)) <= Turns
             /\ BufferAfter(u) # BufferOf(u)
                   => Spoke(u) /\ RingAppended(BufferOf(u), BufferAfter(u))]_vars

\* C22: the single-file bot started again, at any point between two message
\* handlers, finds its history as it was before: what shortTermMemory holds
\* is what hydrate loads from conversation_history
C22_RestartContinuity ==
    [][(request'.op = "startup" /\ deployment = "index")
       => shortTermMemory' = shortTermMemory]_vars


---------------------------------------------------------------------------
(* The ids of the tasks: creation, deletion and the monthly sweep together *)

NextIds ==
    \/ Tick
    \/ \E p \in Processes : monthlyCleanup(p)
    \/ \E run \in sweeps : monthlyCleanupWritten(run)
    \/ \E run \in sweeps : monthlyCleanupFailed(run)
    \/ \E newTasks \in NewTasks :
          processTasks(newTasks, "Anna") /\ Handling("processTasks", "Anna", newTasks)
    \/ \E order \in Orders :
          handleComplete(<<"m","i","l","c","h">>, "Anna", order)
          /\ Handling("handleComplete", "Anna", <<<<"m","i","l","c","h">>>>)
    \/ \E order \in Orders :
          handleRemove(<<"m","i","l","c","h">>, "Anna", order)
          /\ Handling("handleRemove", "Anna", <<<<"m","i","l","c","h">>>>)
    \/ \E batch \in Batches :
          createTasks(batch, "Anna") /\ Handling("createTasks", "Anna", batch)
    \/ \E batch \in Batches :
          createTasksV1(batch, "Anna") /\ Handling("createTasks", "Anna", batch)
    \/ \E ids \in Identifiers, order \in Orders :
          deleteTasks(ids, "Anna", order) /\ Handling("deleteTasks", "Anna", ids)

IdSpec == Init /\ [][NextIds]_vars

\* the ids the table has given out so far
GivenOut == 1..(nextId - 1)

\* C23: the id of a row is one that was given out; an id that was given out
\* stays given out; an id that was given out and whose row was removed, by a
\* deletion or by the sweep, is the id of no row afterwards; and a row that
\* is inserted gets an id that was not given out before
C23_IdsNeverReused ==
    [][/\ Ids(tasks') \subseteq 1..(nextId' - 1)
       /\ GivenOut \subseteq 1..(nextId' - 1)
       /\ (GivenOut \ Ids(tasks)) \cap Ids(tasks') = {}
       /\ \A r \in tasks' : r.id \notin Ids(tasks) => r.id \notin GivenOut]_vars

\* a task was inserted after the sweep removed another
C23_Witness ==
    /\ request.op = "processTasks"
    /\ archive # <<>>
    /\ \E r \in tasks : /\ r.id = nextId - 1
                        /\ GivenOut \ Ids(tasks) # {}

\* a task was inserted after a deletion removed another
C23_WitnessDeleted ==
    /\ request.op = "createTasks"
    /\ archive = <<>>
    /\ \E r \in tasks : /\ r.id = nextId - 1
                        /\ GivenOut \ Ids(tasks) # {}


---------------------------------------------------------------------------
(* The titles of the tasks: the handlers that write a title, given titles    *)
(* of white space only by the language model                                 *)

Blank == <<" "," ">>

BlankBatches ==
    UNION {[1..n -> {Descriptor(Milch, NULL, ""), Descriptor(Blank, NULL, "")}] :
              n \in 1..MaxBatch}

NextTitles ==
    \/ \E batch \in BlankBatches, person \in Persons :
          createTasks(batch, person) /\ Handling("createTasks", person, batch)
    \/ \E batch \in BlankBatches, person \in Persons :
          createTasksV1(batch, person) /\ Handling("createTasks", person, batch)
    \/ \E newTasks \in BlankBatches, person \in Persons :
          processTasks(newTasks, person) /\ Handling("processTasks", person, newTasks)
    \/ \E updates \in {[newTitle |-> Blank], [newTitle |-> EdekaMilch]}, person \in Persons, order \in Orders :
          editTask(<<"m","i","l","c","h">>, updates, person, order)
          /\ Handling("editTask", person, <<<<"m","i","l","c","h">>, updates>>)
    \/ \E updates \in {[newTitle |-> Blank], [newTitle |-> EdekaMilch]}, person \in Persons, order \in Orders :
          editTaskV1(<<"m","i","l","c","h">>, updates, person, order)
          /\ Handling("editTask", person, <<<<"m","i","l","c","h">>, updates>>)
    \/ \E details \in {[title |-> <<>>], [title |-> Blank]}, person \in Persons, order \in Orders :
          handleEdit(<<"m","i","l","c","h">>, details, person, order)
          /\ Handling("handleEdit", person, <<<<"m","i","l","c","h">>, details>>)

TitleSpec == Init /\ [][NextTitles]_vars

\* C24: the title of every row of the table holds a character that is not
\* white space
C24_NonEmptyTitle == \A r \in tasks : trim(r.title) # <<>>


---------------------------------------------------------------------------
(* The fields when_text and where_text: the handlers given descriptors that  *)
(* have them, have them empty, or do not have them                           *)

NullBatches ==
    UNION {[1..n -> { Descriptor(Milch, NULL, ""),
                      [Descriptor(EdekaMilch, <<>>, "") EXCEPT !.when_text = <<>>],
                      [Descriptor(Edeka, Edeka, "") EXCEPT !.when_text = <<"8">>] }] :
              n \in 1..MaxBatch}

NullUpdates == {[newTitle |-> PaddedMilch], [newWhere |-> Edeka], [newWhen |-> <<>>]}

NextNulls ==
    \/ \E batch \in NullBatches :
          createTasks(batch, "Anna") /\ Handling("createTasks", "Anna", batch)
    \/ \E batch \in NullBatches :
          createTasksV1(batch, "Anna") /\ Handling("createTasks", "Anna", batch)
    \/ \E newTasks \in NullBatches :
          processTasks(newTasks, "Anna") /\ Handling("processTasks", "Anna", newTasks)
    \/ \E ids \in Identifiers, order \in Orders :
          completeTasks(ids, "Anna", order) /\ Handling("completeTasks", "Anna", ids)
    \/ \E ids \in Identifiers, order \in Orders :
          completeTasksV1(ids, "Anna", order) /\ Handling("completeTasks", "Anna", ids)
    \/ clearAllTasks("Anna") /\ Handling("clearAllTasks", "Anna", <<>>)
    \/ \E updates \in NullUpdates, order \in Orders :
          editTask(<<"m","i","l","c","h">>, updates, "Anna", order)
          /\ Handling("editTask", "Anna", <<<<"m","i","l","c","h">>, updates>>)
    \/ \E updates \in NullUpdates, order \in Orders :
          editTaskV1(<<"m","i","l","c","h">>, updates, "Anna", order)
          /\ Handling("editTask", "Anna", <<<<"m","i","l","c","h">>, updates>>)
    \/ \E details \in {[who |-> "Ben"], [when_text |-> <<"8">>]}, order \in Orders :
          handleEdit(<<"m","i","l","c","h">>, details, "Anna", order)
          /\ Handling("handleEdit", "Anna", <<<<"m","i","l","c","h">>, details>>)
    \/ handleClearAll("Anna") /\ Handling("handleClearAll", "Anna", <<>>)
    \/ \E order \in Orders :
          handleComplete(<<"m","i","l","c","h">>, "Anna", order)
          /\ Handling("handleComplete", "Anna", <<<<"m","i","l","c","h">>>>)

NullSpec == Init /\ [][NextNulls]_vars

\* the call handled is an edit that names the column, as field of editTask or
\* as column of handleEdit
Sets(column, field) ==
    \/ request'.op = "editTask" /\ Has(request'.args[2], field)
    \/ request'.op = "handleEdit" /\ column \in DOMAIN request'.args[2]

\* C25: a row that is inserted comes from a descriptor of the call, and its
\* when_text is null when the descriptor has none or an empty one, and so its
\* where_text; a when_text or where_text that is null in a row is null in
\* the row after every call but an edit that names the field
C25_NullFieldPreserved ==
    [][/\ \A r \in tasks' :
             r.id \notin Ids(tasks)
             => \E k \in DOMAIN request'.args :
                   /\ r.title \in {request'.args[k].title, normalizeTask(request'.args[k].title)}
                   /\ request'.args[k].when_text \in {NULL, <<>>} => r.when_text = NULL
                   /\ request'.args[k].where_text \in {NULL, <<>>} => r.where_text = NULL
       /\ \A r \in tasks, q \in tasks' :
             r.id = q.id
             => /\ (r.when_text = NULL /\ q.when_text # NULL) => Sets("when_text", "newWhen")
                /\ (r.where_text = NULL /\ q.where_text # NULL) => Sets("where_text", "newWhere")]_vars

\* a task made from a descriptor with an empty when_text and an empty
\* where_text is in the table, completed since, with both fields null
C25_Witness ==
    /\ request.op \in {"completeTasks", "handleComplete", "clearAllTasks", "handleClearAll"}
    /\ \E r \in tasks : /\ r.title = EdekaMilch
                        /\ r.completed = 1
                        /\ r.when_text = NULL
                        /\ r.where_text = NULL


---------------------------------------------------------------------------
(* Updates that are no text message of a person: a voice message, a photo,   *)
(* a message of another bot                                                  *)

\* bot.on('message') returns at its guard; bot.on('voice'), which only the
\* single-file bot has and which does not look at msg.from.is_bot, sends its
\* one sentence for a voice message
onUpdate(user, kind, is_bot) ==
    /\ received < MaxMessages
    /\ is_bot \/ kind # "text"
    /\ received' = received + 1
    /\ \E sent \in {IF deployment = "index" /\ kind = "voice" THEN 1 ELSE 0} :
          /\ ended' = Ended(received + 1, user, <<>>, kind, sent, 0, "", FALSE)
          /\ reply' = IF sent = 1
                      THEN Msg("voice", "I'm too old for voice messages. Type it out.",
                               0, <<>>, <<>>)
                      ELSE reply
    /\ request' = Request("update", user, <<kind, is_bot>>)
    /\ UNCHANGED <<deployment, tasks, nextId, now, lastCleanup, archive, sweeps, awaiting,
                   conversations, shortTermMemory, conversation_history>>

NextUpdates ==
    \/ NextChat
    \/ \E user \in Persons, kind \in {"text", "voice", "photo"}, is_bot \in BOOLEAN :
          onUpdate(user, kind, is_bot)

UpdateSpec == Init /\ [][NextUpdates]_vars

\* the step is the handling of such an update
Ignored == ended' # ended /\ ended'.result \in {"text", "voice", "photo"}

\* C26: a message that is no text, or that a bot sent, leaves the tasks and
\* the histories as they are and no call of the language model is begun for
\* it; when a person sent it, the bot sends one message, the sentence that
\* says it cannot take such a message
C26_NonTextIgnored ==
    [][Ignored
       => /\ UNCHANGED <<tasks, nextId, conversations, shortTermMemory, conversation_history>>
          /\ awaiting' = awaiting
          /\ ended'.called = 0
          /\ ~request'.args[2]
             => /\ ended'.sent = 1
                /\ reply'.op = "voice"]_vars

\* the part of C26 that the code keeps: what such a message leaves alone
NonTextFrame ==
    [][Ignored
       => /\ UNCHANGED <<tasks, nextId, conversations, shortTermMemory, conversation_history>>
          /\ awaiting' = awaiting
          /\ ended'.called = 0
          /\ (deployment = "index" /\ request'.args[1] = "voice") => ended'.sent = 1]_vars


\* the handlers that complete, delete or edit tasks
Mutations ==
    {"completeTasks", "deleteTasks", "editTask", "clearAllTasks",
     "handleComplete", "handleRemove", "handleEdit", "handleClearAll"}

\* C27: a completion, deletion, edit or clear_all that a person asks for
\* leaves every row of another owner in the table as it is
C27_OwnerScoping ==
    [][request'.op \in Mutations
       => \A r \in tasks : r.who # request'.person => r \in tasks']_vars

\* C27 without the clear_all of the single-file bot
OwnerScopingButClearAll ==
    [][(request'.op \in Mutations /\ request'.op # "handleClearAll")
       => \A r \in tasks : r.who # request'.person => r \in tasks']_vars


\* C28: a deletion removes, for each target, at most one row: an active task
\* of the person whose title contains the target and is as short as any such
\* title; every other row stays in the table
C28_DeleteSingleShortest ==
    [][request'.op \in {"deleteTasks", "handleRemove"}
       => /\ Cardinality(tasks \ tasks') <= Len(request'.args)
          /\ \A r \in tasks \ tasks' :
                \E k \in DOMAIN request'.args :
                   /\ r \in Matching(tasks, request'.person, request'.args[k])
                   /\ \A q \in Matching(tasks, request'.person, request'.args[k]) :
                         Len(r.title) <= Len(q.title)]_vars

\* the part of C28 about number alone, for the remove of the single-file bot
RemoveAtMostOne ==
    [][request'.op = "handleRemove"
       => /\ Cardinality(tasks \ tasks') <= 1
          /\ \A r \in tasks \ tasks' :
                r \in Matching(tasks, request'.person, request'.args[1])]_vars


---------------------------------------------------------------------------
(* The lists: tasks of several categories and importances, and the handlers *)
(* that list them                                                           *)

ListBatches ==
    UNION {[1..n -> { Descriptor(Milch, NULL, ""),
                      [Descriptor(EdekaMilch, NULL, "shopping") EXCEPT !.importance = "urgent"],
                      [Descriptor(Edeka, NULL, "") EXCEPT !.importance = "low"] }] :
              n \in 1..MaxBatch}

NextLists ==
    \/ \E batch \in ListBatches, person \in Persons :
          createTasks(batch, person) /\ Handling("createTasks", person, batch)
    \/ \E batch \in ListBatches, person \in Persons :
          createTasksV1(batch, person) /\ Handling("createTasks", person, batch)
    \/ \E newTasks \in ListBatches, person \in Persons :
          processTasks(newTasks, person) /\ Handling("processTasks", person, newTasks)
    \/ \E scope \in Scopes, person \in Persons, order \in Orders :
          listTasks(scope, person, order) /\ Handling("listTasks", person, <<scope>>)
    \/ \E scope \in Scopes, person \in Persons, order \in Orders :
          handleList(scope, person, order) /\ Handling("handleList", person, <<scope>>)

ListSpec == Init /\ [][NextLists]_vars

\* C29: in the lines of a list every task under the heading of the urgent
\* ones stands before every task under another heading, and the tasks under
\* one heading stand together, so that no heading is written twice
C29_ListOrdering ==
    request.op \in {"listTasks", "handleList"}
    => /\ \A i, j \in DOMAIN reply.lines :
             (i < j /\ reply.lines[j].kind \in {"DRINGEND", "URGENT"})
             => reply.lines[i].kind \in {"DRINGEND", "URGENT"}
       /\ \A i, j, k \in DOMAIN reply.lines :
             (i < j /\ j < k /\ reply.lines[i].kind = reply.lines[k].kind)
             => reply.lines[j].kind = reply.lines[i].kind

\* the part of C29 that listTasks keeps: the urgent tasks stand first
ListTasksUrgentFirst ==
    request.op = "listTasks"
    => \A i, j \in DOMAIN reply.lines :
          (i < j /\ reply.lines[j].kind = "DRINGEND") => reply.lines[i].kind = "DRINGEND"


---------------------------------------------------------------------------
(* The suggestions for a time: tasks of several estimated durations, and     *)
(* suggestTasks with several times and counts                                *)

Putzen == <<"P","u","t","z","e","n">>
Muell == <<"M","ü","l","l">>

SuggestBatches ==
    UNION {[1..n -> { Descriptor(Milch, NULL, ""),
                      Descriptor(Putzen, NULL, ""),
                      Descriptor(Muell, NULL, "") }] : n \in 1..MaxBatch}

TimedArgs ==
    { [timeAvailable |-> t, count |-> c, context |-> <<>>] : t \in {10, 20, 50}, c \in {0, 1} }

InitSuggest == Init /\ deployment \in {"handlers", "handlers_v1"}

NextSuggest ==
    \/ \E batch \in SuggestBatches, person \in Persons :
          createTasks(batch, person) /\ Handling("createTasks", person, batch)
    \/ \E batch \in SuggestBatches, person \in Persons :
          createTasksV1(batch, person) /\ Handling("createTasks", person, batch)
    \/ \E person \in Persons, order \in Orders :
          completeTasks(<<<<"m","i","l","c","h">>>>, person, order)
          /\ Handling("completeTasks", person, <<<<"m","i","l","c","h">>>>)
    \/ \E person \in Persons, order \in Orders :
          completeTasksV1(<<<<"m","i","l","c","h">>>>, person, order)
          /\ Handling("completeTasks", person, <<<<"m","i","l","c","h">>>>)
    \/ \E args \in TimedArgs, person \in Persons, order \in Orders :
          suggestTasks(args, person, order) /\ Handling("suggestTasks", person, <<args>>)

SuggestSpec == InitSuggest /\ [][NextSuggest]_vars

\* the estimated minutes of the tasks that the lines name, added up
RECURSIVE SumOfDurations(_)
SumOfDurations(lines) ==
    IF lines = <<>> THEN 0
    ELSE estimateTaskDuration(Head(lines).text) + SumOfDurations(Tail(lines))

\* the last call was a suggestion for a time
TimedSuggestion == request.op = "suggestTasks" /\ request.args[1].timeAvailable # 0

\* C30: a suggestion for T minutes names active tasks of the person only, at
\* most count (3 when no count is given) of them; when a task of the person
\* fits into T, the estimated durations of the tasks named add up to T at
\* most; when none fits and the person has a task, one task is named, and
\* no active task of the person has a shorter estimated duration
C30_TimeBudgetSuggestion ==
    TimedSuggestion
    => /\ \A k \in DOMAIN reply.lines :
             \E r \in Active(tasks, request.person) :
                r.id = reply.lines[k].n /\ r.title = reply.lines[k].text
       /\ Len(reply.lines) <= (IF request.args[1].count = 0 THEN 3 ELSE request.args[1].count)
       /\ IF \E r \in Active(tasks, request.person) :
                estimateTaskDuration(r.title) <= request.args[1].timeAvailable
          THEN /\ reply.lines # <<>>
               /\ SumOfDurations(reply.lines) <= request.args[1].timeAvailable
          ELSE Active(tasks, request.person) # {}
               => /\ Len(reply.lines) = 1
                  /\ \A q \in Active(tasks, request.person) :
                        estimateTaskDuration(reply.lines[1].text)
                           <= estimateTaskDuration(q.title)

\* the part of C30 that the code keeps: whose tasks, how many, and the sum
\* when a task fits
SuggestionWithinBudget ==
    TimedSuggestion
    => /\ \A k \in DOMAIN reply.lines :
             \E r \in Active(tasks, request.person) :
                r.id = reply.lines[k].n /\ r.title = reply.lines[k].text
       /\ Len(reply.lines) <= (IF request.args[1].count = 0 THEN 3 ELSE request.args[1].count)
       /\ (\E r \in Active(tasks, request.person) :
              estimateTaskDuration(r.title) <= request.args[1].timeAvailable)
          => /\ reply.lines # <<>>
             /\ SumOfDurations(reply.lines) <= request.args[1].timeAvailable
       /\ (Active(tasks, request.person) # {}
           /\ \A r \in Active(tasks, request.person) :
                 estimateTaskDuration(r.title) > request.args[1].timeAvailable)
          => Len(reply.lines) = 1


---------------------------------------------------------------------------
(* The call of the language model that never returns.  No bot gives the     *)
(* client a timeout or races the call against a timer of its own: the       *)
(* handler goes on when the promise of openai.chat.completions.create       *)
(* settles, and only then.                                                   *)

\* the handlers whose call can still return, and those whose call hangs
Pending == {h \in awaiting : DOMAIN h = {"id", "user", "text"}}

\* the connection of the call of h hangs: the promise will never settle
callHangs(h) ==
    /\ h \in Pending
    /\ awaiting' = (awaiting \ {h})
                   \cup {[id |-> h.id, user |-> h.user, text |-> h.text, hangs |-> TRUE]}
    /\ UNCHANGED <<deployment, tasks, nextId, now, lastCleanup, archive, sweeps, reply, request,
                   received, ended, conversations, shortTermMemory, conversation_history>>

\* the promise settles and the handler runs on from its await
Returns ==
    \/ \E h \in Pending : onContent(h)
    \/ \E h \in Pending : onError(h, "rejected")
    \/ \E h \in Pending, message \in BOOLEAN : onResponse(h, message)
    \/ \E h \in Pending : onWisdomError(h)

NextHang ==
    \/ \E user \in Persons, text \in Texts, stored \in BOOLEAN : onMessage(user, text, stored)
    \/ \E h \in Pending : callHangs(h)
    \/ Returns

\* a call that does not hang returns, and the event loop then runs the
\* continuation of the handler
HangSpec == Init /\ [][NextHang]_vars /\ WF_vars(Returns)

\* the handler of message id waits at its await
InFlight(id) == \E h \in awaiting : h.id = id

\* C31: the handler of a message that waits for the language model leaves
\* its await in the end, whether the call returns or not
C31_NoIndefiniteHang ==
    \A id \in 1..MaxMessages : InFlight(id) ~> ~InFlight(id)

\* the handler of a message whose call does not hang leaves its await
ReturnedCallsEnd ==
    \A id \in 1..MaxMessages :
       InFlight(id) ~> (~InFlight(id) \/ \E h \in awaiting \ Pending : h.id = id)


---------------------------------------------------------------------------
(* The sweep while its timer keeps firing and the writes of the archive     *)
(* succeed                                                                  *)

NextRetention ==
    \/ Tick
    \/ \E p \in Processes : monthlyCleanup(p)
    \/ \E run \in sweeps : monthlyCleanupWritten(run)
    \/ \E newTasks \in {<<Descriptor(Milch, Edeka, "")>>} :
          processTasks(newTasks, "Anna") /\ Handling("processTasks", "Anna", newTasks)
    \/ handleClearAll("Anna") /\ Handling("handleClearAll", "Anna", <<>>)
    \/ \E order \in Orders :
          handleComplete(<<"m","i","l","c","h">>, "Anna", order)
          /\ Handling("handleComplete", "Anna", <<<<"m","i","l","c","h">>>>)

\* time passes; setInterval starts monthlyCleanup in every process day after
\* day; the promise of fs.writeFile resolves
RetentionSpec ==
    /\ InitSweep
    /\ [][NextRetention]_vars
    /\ WF_vars(Tick)
    /\ \A p \in Processes : WF_vars(monthlyCleanup(p))
    /\ WF_vars(\E run \in sweeps : monthlyCleanupWritten(run))

\* the task id was completed so early that a sweep after its retention
\* window comes before the clock of the model ends
CompletedInTime(id) ==
    \E r \in tasks : /\ r.id = id
                     /\ r.completed = 1
                     /\ r.completedAt[1] + 2 * Retention <= MaxDay

\* the task id is in a file of the archive and not in the table
Archived(id) ==
    /\ id \notin Ids(tasks)
    /\ \E f \in DOMAIN archive : \E a \in archive[f] : a.id = id

\* C32: a task that is completed is in the end archived and out of the
\* table; a row that leaves the table was completed, at least the retention
\* window before, and no active row leaves it
C32_Retention ==
    /\ \A id \in 1..MaxRows : CompletedInTime(id) ~> Archived(id)
    /\ [][\A r \in tasks :
             r.id \notin Ids(tasks')
             => /\ r.completed = 1
                /\ r.completedAt # NoTime
                /\ r.completedAt[1] + Retention <= now]_vars

\* a task completed on day 0 was archived and removed, and an active task,
\* made before the sweep, is still in the table
C32_Witness ==
    /\ \E f \in DOMAIN archive : \E a \in archive[f] : a.completedAt = <<0>> /\ a.id \notin Ids(tasks)
    /\ \E r \in tasks : r.completed = 0 /\ \A f \in DOMAIN archive : \A a \in archive[f] : a.id > r.id


---------------------------------------------------------------------------
(* The history that the language model is given with a message *)

\* this.shortTermMemory.slice(-10).map(m => `${m.person}: ${m.said}`): the
\* lines of the context, each the name, a colon and the text
getConversationContext(memory) ==
    [k \in 1..(IF Len(memory) < 10 THEN Len(memory) ELSE 10) |->
        With(memory[Len(memory) - (IF Len(memory) < 10 THEN Len(memory) ELSE 10) + k],
             LAMBDA m : <<m.person, ": ", m.said>>)]

\* C33: the history that goes to the language model with a message of a
\* person ends with that message and holds turns of that person only,
\* whoever else wrote to the bot before: in the single-file bot every line
\* of the context bears the name of the person; in the other bots the turns
\* are those of the Map entry of the person, and the message of one person
\* changes the entry of no other
C33_HistoryIsolation ==
    [][\A h \in awaiting' \ awaiting :
          IF deployment = "index"
          THEN \E context \in {getConversationContext(shortTermMemory')} :
                  /\ context # <<>>
                  /\ context[Len(context)] = <<h.user, ": ", h.text>>
                  /\ \A k \in DOMAIN context : context[k][1] = h.user
          ELSE /\ conversations'[h.user] # <<>>
               /\ conversations'[h.user][Len(conversations'[h.user])]
                     = [role |-> "user", content |-> h.text]
               /\ \A u \in Persons \ {h.user} : conversations'[u] = conversations[u]]_vars

\* the part of C33 that every bot keeps: the history ends with the message
HistoryEndsWithMessage ==
    [][\A h \in awaiting' \ awaiting :
          IF deployment = "index"
          THEN \E context \in {getConversationContext(shortTermMemory')} :
                  /\ context # <<>>
                  /\ context[Len(context)] = <<h.user, ": ", h.text>>
          ELSE /\ conversations'[h.user] # <<>>
               /\ conversations'[h.user][Len(conversations'[h.user])]
                     = [role |-> "user", content |-> h.text]
               /\ \A u \in Persons \ {h.user} : conversations'[u] = conversations[u]]_vars


---------------------------------------------------------------------------
(* completeTasks and deleteTasks called with several identifiers *)

SeveralIdentifiers ==
    { << <<"m","i","l","c","h">>, <<"M","i","l","z">> >>,
      << <<"M","i","l","z">>, <<"m","i","l","c","h">> >>,
      << <<"M","i","l","z">>, <<"M","i","l","z">> >> }

NextSeveral ==
    \/ \E batch \in Batches, person \in Persons :
          createTasks(batch, person) /\ Handling("createTasks", person, batch)
    \/ \E batch \in Batches, person \in Persons :
          createTasksV1(batch, person) /\ Handling("createTasks", person, batch)
    \/ \E ids \in SeveralIdentifiers, person \in Persons, order \in Orders :
          completeTasks(ids, person, order) /\ Handling("completeTasks", person, ids)
    \/ \E ids \in SeveralIdentifiers, person \in Persons, order \in Orders :
          completeTasksV1(ids, person, order) /\ Handling("completeTasks", person, ids)
    \/ \E ids \in SeveralIdentifiers, person \in Persons, order \in Orders :
          deleteTasks(ids, person, order) /\ Handling("deleteTasks", person, ids)

SeveralSpec == InitSuggest /\ [][NextSeveral]_vars

\* the message tells the person that nothing was found for the identifier:
\* it says so of the identifier, with a suggestion, or of the whole call
ReportsMiss(msg, identifier) ==
    \/ msg.kind \in {"Nichts gefunden.", "Aufgabe nicht gefunden."}
    \/ /\ msg.kind = "nicht gefunden. Meintest du: "
       /\ \E k \in DOMAIN msg.lines : msg.lines[k].text = identifier

\* C34: after a completeTasks or deleteTasks with several identifiers the
\* message reports every identifier that no active task of the person
\* matched, also when another identifier of the call did match
C34_EveryMissReported ==
    [][(request'.op \in {"completeTasks", "deleteTasks"} /\ Len(request'.args) > 1)
       => \A k \in DOMAIN request'.args :
             Matching(tasks, request'.person, request'.args[k]) = {}
             => ReportsMiss(reply', request'.args[k])]_vars

\* when no identifier of the call matched, the message says so
AllMissedReported ==
    [][(/\ request'.op \in {"completeTasks", "deleteTasks"}
        /\ Len(request'.args) > 1
        /\ \A k \in DOMAIN request'.args :
              Matching(tasks, request'.person, request'.args[k]) = {})
       => ReportsMiss(reply', request'.args[1])]_vars


\* a row of a file of the archive is in a file of the archive after the step
ArchiveKept == \A f \in DOMAIN archive : \A a \in archive[f] :
                  \E g \in DOMAIN archive' : a \in archive'[g]

\* C35: the rows that the archive/delete step of a run takes out of the
\* table are the rows the run wrote to its file, whatever handlers ran since
\* the run selected them; and a row that is in a file of the archive stays in
\* a file of the archive
C35_ArchiveDurability ==
    [][/\ \A run \in sweeps :
             Performs(run)
             => /\ {r \in tasks : r.id \notin Ids(tasks')} = run.oldTasks
                /\ archive'[run.now] = run.oldTasks
       /\ ArchiveKept]_vars

\* the part of C35 that holds while the writes succeed: no archived row is
\* lost, and the rows a run deletes are rows it wrote
ArchivedRowsKept ==
    [][/\ \A run \in sweeps :
             Performs(run)
             => /\ {r \in tasks : r.id \notin Ids(tasks')} \subseteq run.oldTasks
                /\ archive'[run.now] = run.oldTasks
       /\ ArchiveKept]_vars


\* C36: a completed task keeps its row, flag, completedAt and completedBy
\* included, through every operation of a user; only the archive/delete step
\* of monthlyCleanup takes it out of the table
C36_CompletionFinal ==
    [][\A r \in tasks :
          r.completed = 1
          => \/ r \in tasks'
             \/ /\ \E run \in sweeps : Performs(run)
                /\ r.id \notin Ids(tasks')]_vars


milch == <<"m","i","l","c","h">>

\* the operations of a user on tasks named milch, the clock and the runs of
\* monthlyCleanup
NextFinal ==
    \/ Tick
    \/ \E p \in Processes : monthlyCleanup(p)
    \/ \E run \in sweeps : monthlyCleanupWritten(run)
    \/ \E batch \in {<<Descriptor(Milch, Edeka, "")>>}, person \in Persons :
          createTasks(batch, person) /\ Handling("createTasks", person, batch)
    \/ \E batch \in {<<Descriptor(Milch, Edeka, "")>>}, person \in Persons :
          createTasksV1(batch, person) /\ Handling("createTasks", person, batch)
    \/ \E newTasks \in {<<Descriptor(Milch, Edeka, "")>>}, person \in Persons :
          processTasks(newTasks, person) /\ Handling("processTasks", person, newTasks)
    \/ \E ids \in {<<milch>>}, person \in Persons, order \in Orders :
          completeTasks(ids, person, order) /\ Handling("completeTasks", person, ids)
    \/ \E ids \in {<<milch>>}, person \in Persons, order \in Orders :
          completeTasksV1(ids, person, order) /\ Handling("completeTasks", person, ids)
    \/ \E person \in Persons, order \in Orders :
          handleComplete(milch, person, order) /\ Handling("handleComplete", person, <<milch>>)
    \/ \E person \in Persons :
          clearAllTasks(person) /\ Handling("clearAllTasks", person, <<>>)
    \/ \E person \in Persons :
          handleClearAll(person) /\ Handling("handleClearAll", person, <<>>)
    \/ \E updates \in Updates, person \in Persons, order \in Orders :
          editTask(milch, updates, person, order)
          /\ Handling("editTask", person, <<milch, updates>>)
    \/ \E updates \in Updates, person \in Persons, order \in Orders :
          editTaskV1(milch, updates, person, order)
          /\ Handling("editTask", person, <<milch, updates>>)
    \/ \E details \in Details, person \in Persons, order \in Orders :
          handleEdit(milch, details, person, order)
          /\ Handling("handleEdit", person, <<milch, details>>)
    \/ \E ids \in {<<milch>>}, person \in Persons, order \in Orders :
          deleteTasks(ids, person, order) /\ Handling("deleteTasks", person, ids)
    \/ \E person \in Persons, order \in Orders :
          handleRemove(milch, person, order) /\ Handling("handleRemove", person, <<milch>>)

FinalSpec == Init /\ [][NextFinal]_vars

\* a complete request for milch has been handled when the person's task
\* Milch was completed already, by the same person, on an earlier day
C36_Witness ==
    /\ request.op \in {"completeTasks", "handleComplete"}
    /\ \E r \in tasks : /\ r.completed = 1
                        /\ r.who = request.person
                        /\ r.completedBy = request.person
                        /\ Like(lower(r.title), milch)
                        /\ r.completedAt[1] < now
    /\ reply.kind \in {"Nichts gefunden.", "Can't find a task like"}


----------------------------------------------------------------------------
(* Titles that differ by case only                                          *)

edeka == <<"e","d","e","k","a">>

\* the descriptors of createTasks: Milch, Edeka Milch, and milch
CaseBatches ==
    UNION {[1..n -> { Descriptor(Milch, NULL, ""),
                      Descriptor(EdekaMilch, NULL, ""),
                      Descriptor(milch, NULL, "") }] : n \in 1..MaxBatch}

\* the updates of editTask: a new title that an active title may equal but
\* for case, or equal
CaseUpdates == {[newTitle |-> milch], [newTitle |-> Milch]}

NextCase ==
    \/ \E batch \in CaseBatches, person \in Persons :
          createTasks(batch, person) /\ Handling("createTasks", person, batch)
    \/ \E target \in {edeka, milch}, updates \in CaseUpdates, person \in Persons, order \in Orders :
          editTask(target, updates, person, order)
          /\ Handling("editTask", person, <<target, updates>>)
    \/ \E ids \in {<<milch>>, <<edeka>>}, person \in Persons, order \in Orders :
          completeTasks(ids, person, order) /\ Handling("completeTasks", person, ids)
    \/ \E ids \in {<<milch>>, <<edeka>>}, person \in Persons, order \in Orders :
          deleteTasks(ids, person, order) /\ Handling("deleteTasks", person, ids)

InitCase == Init /\ deployment = "handlers"

CaseSpec == InitCase /\ [][NextCase]_vars

\* C37: no person has two active tasks whose normalized titles are equal
\* when case is ignored
C37_CaseInsensitiveUnique ==
    \A r, t \in tasks :
        ( /\ r.completed = 0 /\ t.completed = 0
          /\ r.who = t.who
          /\ toLowerCase(normalizeTask(r.title)) = toLowerCase(normalizeTask(t.title)) )
        => r.id = t.id

\* what the table's constraint gives: no person has two active tasks of
\* the same title, case included
ExactTitleUnique ==
    \A r, t \in tasks :
        (r.completed = 0 /\ t.completed = 0 /\ r.who = t.who /\ r.title = t.title)
        => r.id = t.id


----------------------------------------------------------------------------
(* handleList of the first program of src/index.js: one query for the urgent *)
(* tasks, one for the shopping, one for the others                           *)

\* t.where_text || 'General Shopping'
StoreOf(t) == IF t.where_text = NULL \/ t.where_text = <<>>
              THEN <<"G","e","n","e","r","a","l"," ","S","h","o","p","p","i","n","g">>
              ELSE t.where_text

\* shopping.reduce(...) and Object.entries(byStore): the tasks store by
\* store, the stores in the order of their first task
RECURSIVE byStore(_)
byStore(shopping) ==
    IF shopping = <<>> THEN <<>>
    ELSE SelectSeq(shopping, LAMBDA t : StoreOf(t) = StoreOf(Head(shopping)))
         \o byStore(SelectSeq(shopping, LAMBDA t : StoreOf(t) # StoreOf(Head(shopping))))

handleListV1(person, order) ==
    /\ deployment = "index"
    /\ \E urgent \in {InOrder({r \in tasks : r.completed = 0 /\ r.importance = "urgent"}, order)},
          shopping \in {InOrder({r \in tasks : r.completed = 0 /\ r.category = "shopping"}, order)},
          regular \in {InOrder({r \in tasks : /\ r.completed = 0
                                              /\ r.importance # "urgent"
                                              /\ r.category # "shopping"}, order)} :
          reply' = IF urgent = <<>> /\ shopping = <<>> /\ regular = <<>>
                   THEN Msg("handleList", "Nothing to do.", 0, <<>>, <<>>)
                   ELSE Msg("handleList", "", 0, <<>>,
                            TaskLines(urgent, LAMBDA t : "URGENT")
                            \o TaskLines(byStore(shopping), LAMBDA t : "SHOPPING")
                            \o TaskLines(regular, LAMBDA t : "TASKS"))
    /\ UNCHANGED <<deployment, tasks, nextId, now, lastCleanup, archive, sweeps>>

NextSections ==
    \/ NextLists
    \/ \E person \in Persons, order \in Orders :
          handleListV1(person, order) /\ Handling("handleList", person, <<"all">>)

SectionSpec == Init /\ [][NextSections]_vars

\* the lines of the reply that name the task
LinesOf(r) == {k \in DOMAIN reply.lines : reply.lines[k].n = r.id}

\* the active tasks a list of this scope for this person is about
ActiveInScope(scope, person) ==
    {r \in tasks : r.completed = 0 /\ (scope = "personal" => r.who = person)}

\* C38: every active task in the scope of a list is in the reply once, none
\* twice and none left out
C38_ListedExactlyOnce ==
    request.op \in {"listTasks", "handleList"}
    => \A r \in ActiveInScope(request.args[1], request.person) : Cardinality(LinesOf(r)) = 1

\* the part of C38 that every list keeps: no active task in scope is left
\* out; and listTasks names none twice
ListedAtLeastOnce ==
    request.op \in {"listTasks", "handleList"}
    => \A r \in ActiveInScope(request.args[1], request.person) :
          /\ LinesOf(r) # {}
          /\ request.op = "listTasks" => Cardinality(LinesOf(r)) = 1

====
